---------------------------- MODULE Spec2Model ----------------------------
(***************************************************************************)
(* A model of kpotier/lmpsdat: the Keys of a LAMMPS data file (Title,      *)
(* Header, Box, Masses, Coeffs, Atoms, Links), the registry MakeKeys       *)
(* builds, and the Encoder and Decoder that drive them.                    *)
(*                                                                         *)
(* Text is modelled as TLA+ strings, one character per position; a Go      *)
(* []byte or string slice s[a:b] is SubSeq(s, a+1, b).  Integers are       *)
(* integers.  A float64 is a decimal number with one fractional digit,     *)
(* held as an integer number of tenths (5 is 0.5, 10 is 1.0).              *)
(***************************************************************************)
EXTENDS Integers, Sequences, FiniteSets, TLC

(***************************************************************************)
(* Names (src/unnamed/part_001 lines 63-125).                              *)
(***************************************************************************)
NameAtomsNbr == "atoms"
NameBondsNbr == "bonds"
NameAnglesNbr == "angles"
NameDihedralsNbr == "dihedrals"
NameAtomTypes == "atom types"
NameBondTypes == "bond types"
NameAngleTypes == "angle types"
NameDihedralTypes == "dihedral types"
NameBoxX == "xlo xhi"
NameBoxY == "ylo yhi"
NameBoxZ == "zlo zhi"
NameMasses == "Masses"
NamePairCoeffs == "Pair Coeffs"
NameBondCoeffs == "Bond Coeffs"
NameAngleCoeffs == "Angle Coeffs"
NameDihedralCoeffs == "Dihedral Coeffs"
NameAtoms == "Atoms"
NameBonds == "Bonds"
NameAngles == "Angles"
NameDihedrals == "Dihedrals"
NameTitle == "Title"

ListNames ==
  << NameAngleCoeffs, NameAngleTypes, NameAngles, NameAnglesNbr,
     NameAtomTypes, NameAtoms, NameAtomsNbr, NameBondCoeffs, NameBondTypes,
     NameBonds, NameBondsNbr, NameBoxX, NameBoxY, NameBoxZ,
     NameDihedralCoeffs, NameDihedralTypes, NameDihedrals, NameDihedralsNbr,
     NameMasses, NamePairCoeffs, NameTitle >>

IsName(n) == \E i \in 1..Len(ListNames) : ListNames[i] = n

(***************************************************************************)
(* Text primitives of the Go standard library, as the code uses them.      *)
(***************************************************************************)
Digits == "0123456789"

IsDigit(c) == \E i \in 1..10 : SubSeq(Digits, i, i) = c

DigitVal(c) == (CHOOSE i \in 1..10 : SubSeq(Digits, i, i) = c) - 1

\* unicode.IsSpace, on the characters that occur in the model's text
IsSpace(c) == c \in {" ", "\t", "\n", "\r"}

At(s, i) == SubSeq(s, i, i)

\* bytes.TrimLeftFunc(s, unicode.IsSpace)
RECURSIVE TrimLeftSpace(_)
TrimLeftSpace(s) ==
  IF Len(s) > 0 /\ IsSpace(At(s, 1)) THEN TrimLeftSpace(Tail(s)) ELSE s

\* bytes.IndexFunc(s, unicode.IsSpace): 0-based index of the first space, -1 if none
RECURSIVE IndexFrom(_, _, _)
IndexFrom(s, chars, i) ==
  IF i > Len(s) THEN -1
  ELSE IF At(s, i) \in chars THEN i - 1
  ELSE IndexFrom(s, chars, i + 1)

IndexSpace(s) == IndexFrom(s, {" ", "\t", "\n", "\r"}, 1)

\* bytes.HasPrefix
HasPrefix(s, p) == Len(s) >= Len(p) /\ SubSeq(s, 1, Len(p)) = p

\* strings.HasSuffix
HasSuffix(s, p) == Len(s) >= Len(p) /\ SubSeq(s, Len(s) - Len(p) + 1, Len(s)) = p

\* strings.Fields / bytes.Fields: the maximal runs of non-space characters
RECURSIVE Fields(_)
Fields(s) ==
  LET t == TrimLeftSpace(s)
      idx == IndexSpace(t)
  IN IF Len(t) = 0 THEN << >>
     ELSE IF idx = -1 THEN << t >>
     ELSE << SubSeq(t, 1, idx) >> \o Fields(SubSeq(t, idx + 1, Len(t)))

\* the value of a run of decimal digits
RECURSIVE DigitsVal(_, _)
DigitsVal(s, acc) ==
  IF Len(s) = 0 THEN acc ELSE DigitsVal(Tail(s), 10 * acc + DigitVal(Head(s)))

AllDigits(s) == \A i \in 1..Len(s) : IsDigit(At(s, i))

\* a leading sign, and the rest
SignOf(s) == IF Len(s) > 0 /\ At(s, 1) = "-" THEN -1 ELSE 1
Unsigned(s) == IF Len(s) > 0 /\ At(s, 1) \in {"-", "+"} THEN Tail(s) ELSE s

\* strconv.Atoi: an optional sign and one or more decimal digits
Atoi(s) ==
  LET u == Unsigned(s)
  IN IF Len(u) > 0 /\ AllDigits(u)
     THEN [ok |-> TRUE, v |-> SignOf(s) * DigitsVal(u, 0)]
     ELSE [ok |-> FALSE, v |-> 0]

\* strconv.ParseFloat(s, 64) on decimal notation: an optional sign, digits,
\* an optional point and digits, at least one digit in all.  The value is
\* in tenths; fractional digits after the first must be zeros to stay inside
\* the modelled float domain.
ParseFloat(s) ==
  LET u == Unsigned(s)
      dot == IndexFrom(u, {"."}, 1)
      ip == IF dot = -1 THEN u ELSE SubSeq(u, 1, dot)
      fp == IF dot = -1 THEN "" ELSE SubSeq(u, dot + 2, Len(u))
      f1 == IF Len(fp) = 0 THEN 0 ELSE DigitVal(At(fp, 1))
  IN IF /\ Len(ip) + Len(fp) > 0
        /\ AllDigits(ip) /\ AllDigits(fp)
        /\ \A i \in 2..Len(fp) : At(fp, i) = "0"
     THEN [ok |-> TRUE, v |-> SignOf(s) * (10 * DigitsVal(ip, 0) + f1)]
     ELSE [ok |-> FALSE, v |-> 0]

\* fmt verb %d
RECURSIVE FmtNat(_)
FmtNat(n) ==
  IF n < 10 THEN At(Digits, n + 1)
  ELSE FmtNat(n \div 10) \o At(Digits, (n % 10) + 1)

FmtInt(n) == IF n < 0 THEN "-" \o FmtNat(-n) ELSE FmtNat(n)

\* fmt verb %g on a float64 held in tenths: the shortest decimal that
\* parses back to the value ("1" for 1.0, "0.5" for 0.5)
FmtG(v) ==
  LET a == IF v < 0 THEN -v ELSE v
      body == IF a % 10 = 0 THEN FmtNat(a \div 10)
              ELSE FmtNat(a \div 10) \o "." \o At(Digits, (a % 10) + 1)
  IN IF v < 0 THEN "-" \o body ELSE body

\* bufio.Scanner with the default split function (bufio.ScanLines): the
\* lines of text, without their terminators; a final line with no
\* terminator is a line, an empty remainder is not
RECURSIVE ScanLines(_)
ScanLines(text) ==
  LET nl == IndexFrom(text, {"\n"}, 1)
      strip(l) == IF Len(l) > 0 /\ At(l, Len(l)) = "\r"
                  THEN SubSeq(l, 1, Len(l) - 1) ELSE l
  IN IF Len(text) = 0 THEN << >>
     ELSE IF nl = -1 THEN << strip(text) >>
     ELSE << strip(SubSeq(text, 1, nl)) >> \o ScanLines(SubSeq(text, nl + 2, Len(text)))


\* delComments: everything from the first '#' on is dropped
delComments(s) ==
  LET idx == IndexFrom(s, {"#"}, 1)
  IN IF idx # -1 THEN SubSeq(s, 1, idx) ELSE s

\* keywordHeader: the words of prefix, in order, each at the start of a word of s
RECURSIVE keywordHeaderRest(_, _, _)
keywordHeaderRest(s, prefix, j) ==
  IF j > Len(prefix) THEN TRUE
  ELSE LET idx == IndexSpace(s)
           t == TrimLeftSpace(SubSeq(s, idx + 1, Len(s)))
       IN IF idx = -1 THEN FALSE
          ELSE IF ~HasPrefix(t, prefix[j]) THEN FALSE
          ELSE keywordHeaderRest(t, prefix, j + 1)

keywordHeader(s, prefix) ==
  LET t == TrimLeftSpace(s)
  IN IF Len(prefix) = 0 THEN FALSE
     ELSE IF ~HasPrefix(t, prefix[1]) THEN FALSE
     ELSE keywordHeaderRest(t, prefix, 2)

\* a faulty keyword, true only when s is prefix once the leading spaces are
\* trimmed (used to test C19_PrefixMatch)
keywordExact(s, prefix) == TrimLeftSpace(s) = prefix

\* keyword: s begins with prefix after trimming the leading spaces
keyword(s, prefix) == HasPrefix(TrimLeftSpace(s), prefix)

\* sortIntsMap: the keys of a map in increasing order
RECURSIVE SortedSeq(_)
SortedSeq(S) ==
  IF S = {} THEN << >>
  ELSE LET lo == CHOOSE a \in S : \A b \in S : a <= b
       IN << lo >> \o SortedSeq(S \ {lo})

sortIntsMap(m) == SortedSeq(DOMAIN m)

(***************************************************************************)
(* Values.  A Go map is a record [nil, m]: nil tells the nil map from the  *)
(* empty one, m is the mapping.  A value crossing the interface{} boundary *)
(* carries its dynamic type t.                                             *)
(***************************************************************************)
NilMap == [nil |-> TRUE, m |-> << >>]
MakeMap == [nil |-> FALSE, m |-> << >>]
MapOf(m) == [nil |-> FALSE, m |-> m]
MapLen(t) == Cardinality(DOMAIN t.m)
MapPut(t, k, row) ==
  [nil |-> FALSE,
   m |-> [j \in (DOMAIN t.m) \cup {k} |-> IF j = k THEN row ELSE t.m[j]]]

TypeInt == "int"
TypeString == "string"
TypeBox == "[2]float64"
TypeMasses == "map[int]float64"
TypeCoeffs == "map[int][]float64"
TypeAtoms == "map[int]*Atom"
TypeLinks == "map[int]*Link"

IntVal(i) == [t |-> TypeInt, i |-> i, s |-> "", lo |-> 0, hi |-> 0, tab |-> NilMap]
StrVal(s) == [t |-> TypeString, i |-> 0, s |-> s, lo |-> 0, hi |-> 0, tab |-> NilMap]
BoxVal(lo, hi) == [t |-> TypeBox, i |-> 0, s |-> "", lo |-> lo, hi |-> hi, tab |-> NilMap]
MapVal(t, tab) == [t |-> t, i |-> 0, s |-> "", lo |-> 0, hi |-> 0, tab |-> tab]

\* type Atom
Atom(molTag, atomType, q, x, y, z, n, nx, ny, nz) ==
  [MolTag |-> molTag, AtomType |-> atomType, Q |-> q, X |-> x, Y |-> y, Z |-> z,
   N |-> n, NX |-> nx, NY |-> ny, NZ |-> nz]

\* type Link
Link(typ, links) == [typ |-> typ, links |-> links]

(***************************************************************************)
(* Keys.  Every Key is an object of the heap (a sequence of objects; an    *)
(* object's address is its index, 0 is the nil pointer).  One record shape *)
(* serves all the Key types; a type uses the fields its struct has:        *)
(*   Title  v(s)            Header name, vBytes[1], v                      *)
(*   Box    name, vBytes, vlo, vhi                                         *)
(*   Masses types, v(tab)   Coeffs name, types, v(tab)                     *)
(*   Atoms  atomStyle, atomsNbr, atomTypes(types), v(tab)                  *)
(*   Links  name, links, nbr, types, atomsNbr, v(tab)                      *)
(***************************************************************************)
KindTitle == "Title"
KindHeader == "Header"
KindBox == "Box"
KindMasses == "Masses"
KindCoeffs == "Coeffs"
KindAtoms == "Atoms"
KindLinks == "Links"

NewKey(kind, name) ==
  [kind |-> kind, name |-> name, v |-> 0, s |-> "", vlo |-> 0, vhi |-> 0,
   vBytes |-> << "", "" >>, tab |-> NilMap, types |-> 0, nbr |-> 0,
   atomsNbr |-> 0, links |-> 0, atomStyle |-> ""]

NewHeader(name) == NewKey(KindHeader, name)
NewBox(name) == NewKey(KindBox, name)
NewCoeffs(name) == NewKey(KindCoeffs, name)
NewTitle == NewKey(KindTitle, NameTitle)
NewMasses == NewKey(KindMasses, NameMasses)
NewAtoms(as) == [NewKey(KindAtoms, NameAtoms) EXCEPT !.atomStyle = as]
NewLinks(name, links) == [NewKey(KindLinks, name) EXCEPT !.links = links + 2]

AtomStyleFull == "full"
AtomStyleAtomic == "atomic"
ListAtomStyles == << AtomStyleFull, AtomStyleAtomic >>
IsAtomStyle(as) == \E i \in 1..Len(ListAtomStyles) : ListAtomStyles[i] = as

\* IsHeader: the Key is a *Header or a *Box
IsHeader(o) == o.kind \in {KindHeader, KindBox}

IsTable(o) == o.kind \in {KindMasses, KindCoeffs, KindAtoms, KindLinks}

\* the Go type a table Key's Set accepts
MapTypeOf(o) ==
  CASE o.kind = KindMasses -> TypeMasses
    [] o.kind = KindCoeffs -> TypeCoeffs
    [] o.kind = KindAtoms -> TypeAtoms
    [] o.kind = KindLinks -> TypeLinks

(***************************************************************************)
(* Keyword.  The result is the answer and the Key as Keyword leaves it:    *)
(* Header and Box cache the number tokens in vBytes while they test.       *)
(***************************************************************************)
HeaderKeyword(o, s) ==
  LET t == TrimLeftSpace(s)
      idx == IndexSpace(t)
  IN IF idx # -1
     THEN [ok |-> keywordHeader(SubSeq(t, idx + 1, Len(t)), Fields(o.name)),
           o |-> [o EXCEPT !.vBytes[1] = SubSeq(t, 1, idx)]]
     ELSE [ok |-> FALSE, o |-> o]

BoxKeyword(o, s) ==
  LET t1 == TrimLeftSpace(s)
      i1 == IndexSpace(t1)
      o1 == [o EXCEPT !.vBytes[1] = SubSeq(t1, 1, i1)]
      t2 == TrimLeftSpace(SubSeq(t1, i1 + 1, Len(t1)))
      i2 == IndexSpace(t2)
      o2 == [o1 EXCEPT !.vBytes[2] = SubSeq(t2, 1, i2)]
  IN IF i1 < 1 THEN [ok |-> FALSE, o |-> o]
     ELSE IF i2 < 1 THEN [ok |-> FALSE, o |-> o1]
     ELSE [ok |-> keywordHeader(SubSeq(t2, i2 + 1, Len(t2)), Fields(o.name)), o |-> o2]

Keyword(o, s) ==
  CASE o.kind = KindTitle -> [ok |-> FALSE, o |-> o]
    [] o.kind = KindHeader -> HeaderKeyword(o, s)
    [] o.kind = KindBox -> BoxKeyword(o, s)
    [] OTHER -> [ok |-> keyword(s, o.name), o |-> o]

(***************************************************************************)
(* Errors are named by what they report.                                   *)
(***************************************************************************)
Ok == "ok"
ErrUnsupported == "Unsupported"
ErrType == "TypeMismatch"
ErrNilKey == "MissingDependency"
ErrArity == "DependencyArity"
ErrCount == "CountMismatch"
ErrRange == "RangeViolation"
ErrNFlag == "InconsistentOptionalField"
ErrNegative == "Negative"
ErrLoHi == "LoGreaterThanHi"
ErrNilMap == "NilCollection"
ErrFields == "NotEnoughFields"
ErrParse == "ParseError"
Panic == "panic"

(***************************************************************************)
(* Set and Get.  The result of Set is the error and the Key afterwards.    *)
(***************************************************************************)
\* Header.Set: h.v, ok = v.(int) assigns the zero value when the assertion fails
HeaderSet(o, val) ==
  IF val.t = TypeInt THEN [err |-> Ok, o |-> [o EXCEPT !.v = val.i]]
  ELSE [err |-> ErrType, o |-> [o EXCEPT !.v = 0]]

TitleSet(o, val) ==
  IF val.t = TypeString THEN [err |-> Ok, o |-> [o EXCEPT !.s = val.s]]
  ELSE [err |-> ErrType, o |-> o]

BoxSet(o, val) ==
  IF val.t = TypeBox THEN [err |-> Ok, o |-> [o EXCEPT !.vlo = val.lo, !.vhi = val.hi]]
  ELSE [err |-> ErrType, o |-> o]

\* Masses.Set, Coeffs.Set, Atoms.Set, Links.Set: x.v, ok = v.(map...) assigns
\* the nil map when the assertion fails
TableSet(o, val) ==
  IF val.t = MapTypeOf(o) THEN [err |-> Ok, o |-> [o EXCEPT !.tab = val.tab]]
  ELSE [err |-> ErrType, o |-> [o EXCEPT !.tab = NilMap]]

Set(o, val) ==
  CASE o.kind = KindTitle -> TitleSet(o, val)
    [] o.kind = KindHeader -> HeaderSet(o, val)
    [] o.kind = KindBox -> BoxSet(o, val)
    [] OTHER -> TableSet(o, val)

Get(o) ==
  CASE o.kind = KindTitle -> StrVal(o.s)
    [] o.kind = KindHeader -> IntVal(o.v)
    [] o.kind = KindBox -> BoxVal(o.vlo, o.vhi)
    [] OTHER -> MapVal(MapTypeOf(o), o.tab)

(***************************************************************************)
(* SetKeys.  h is the heap, i the address of the Key, ks the addresses of  *)
(* the Keys passed; the result is the error and the heap afterwards.       *)
(***************************************************************************)
\* a faulty Masses.SetKeys, which accepts a Header of any Name (used to test
\* C20_Wiring)
MassesSetKeysAnyName(h, i, ks) ==
  IF Len(ks) # 1 THEN [err |-> ErrArity, h |-> h]
  ELSE IF h[ks[1]].kind # KindHeader
       THEN [err |-> ErrType, h |-> [h EXCEPT ![i].types = 0]]
  ELSE [err |-> Ok, h |-> [h EXCEPT ![i].types = ks[1]]]

\* Masses.SetKeys: m.types is assigned before the Name is checked
MassesSetKeys(h, i, ks) ==
  IF Len(ks) # 1 THEN [err |-> ErrArity, h |-> h]
  ELSE IF h[ks[1]].kind # KindHeader
       THEN [err |-> ErrType, h |-> [h EXCEPT ![i].types = 0]]
  ELSE IF h[ks[1]].name # NameAtomTypes
       THEN [err |-> ErrArity, h |-> [h EXCEPT ![i].types = ks[1]]]
  ELSE [err |-> Ok, h |-> [h EXCEPT ![i].types = ks[1]]]

CoeffsSetKeys(h, i, ks) ==
  IF Len(ks) # 1 THEN [err |-> ErrArity, h |-> h]
  ELSE IF h[ks[1]].kind # KindHeader
       THEN [err |-> ErrType, h |-> [h EXCEPT ![i].types = 0]]
  ELSE [err |-> Ok, h |-> [h EXCEPT ![i].types = ks[1]]]

RECURSIVE AtomsSetKeys(_, _, _)
AtomsSetKeys(h, i, ks) ==
  IF Len(ks) = 0 THEN [err |-> Ok, h |-> h]
  ELSE LET k == Head(ks)
       IN IF h[k].kind # KindHeader THEN [err |-> ErrType, h |-> h]
          ELSE IF h[k].name = NameAtomsNbr
               THEN AtomsSetKeys([h EXCEPT ![i].atomsNbr = k], i, Tail(ks))
          ELSE IF h[k].name = NameAtomTypes
               THEN AtomsSetKeys([h EXCEPT ![i].types = k], i, Tail(ks))
          ELSE [err |-> ErrArity, h |-> h]

RECURSIVE LinksSetKeys(_, _, _)
LinksSetKeys(h, i, ks) ==
  IF Len(ks) = 0 THEN [err |-> Ok, h |-> h]
  ELSE LET k == Head(ks)
       IN IF h[k].kind # KindHeader THEN [err |-> ErrType, h |-> h]
          ELSE IF h[k].name = NameAtomsNbr
               THEN LinksSetKeys([h EXCEPT ![i].atomsNbr = k], i, Tail(ks))
          ELSE IF HasSuffix(h[k].name, "types")
               THEN LinksSetKeys([h EXCEPT ![i].types = k], i, Tail(ks))
          ELSE LinksSetKeys([h EXCEPT ![i].nbr = k], i, Tail(ks))

SetKeys(h, i, ks) ==
  CASE h[i].kind = KindMasses -> MassesSetKeys(h, i, ks)
    [] h[i].kind = KindCoeffs -> CoeffsSetKeys(h, i, ks)
    [] h[i].kind = KindAtoms -> AtomsSetKeys(h, i, ks)
    [] h[i].kind = KindLinks -> LinksSetKeys(h, i, ks)
    [] OTHER -> [err |-> ErrUnsupported, h |-> h]

(***************************************************************************)
(* SetKeysVal: a table pushes the length of its map into its row-count     *)
(* Header.                                                                 *)
(***************************************************************************)
\* the Header a table's SetKeysVal writes: Masses and Coeffs m.types,
\* Atoms a.atomsNbr, Links l.nbr
CountKey(o) ==
  CASE o.kind \in {KindMasses, KindCoeffs} -> o.types
    [] o.kind = KindAtoms -> o.atomsNbr
    [] o.kind = KindLinks -> o.nbr
    [] OTHER -> 0

\* a faulty SetKeysVal, which leaves the Header as it is (used to test
\* C4_CountPropagation)
TableSetKeysValNone(h, i) ==
  IF CountKey(h[i]) = 0 THEN [err |-> ErrNilKey, h |-> h] ELSE [err |-> Ok, h |-> h]

\* a faulty SetKeysVal, which writes the length into the type Header too
\* (used to test C21_PropagationFrame)
TableSetKeysValTypes(h, i) ==
  LET c == CountKey(h[i])
      r == HeaderSet(h[c], IntVal(MapLen(h[i].tab)))
      h1 == [h EXCEPT ![c] = r.o]
  IN IF c = 0 THEN [err |-> ErrNilKey, h |-> h]
     ELSE [err |-> r.err,
           h |-> IF h[i].types = 0 THEN h1
                 ELSE [h1 EXCEPT ![h[i].types].v = MapLen(h[i].tab)]]

TableSetKeysVal(h, i) ==
  LET c == CountKey(h[i])
      r == HeaderSet(h[c], IntVal(MapLen(h[i].tab)))
  IN IF c = 0 THEN [err |-> ErrNilKey, h |-> h]
     ELSE [err |-> r.err, h |-> [h EXCEPT ![c] = r.o]]

SetKeysVal(h, i) ==
  IF IsTable(h[i]) THEN TableSetKeysVal(h, i)
  ELSE [err |-> ErrUnsupported, h |-> h]

(***************************************************************************)
(* Check.  Go ranges over a map in an unspecified order and Check returns  *)
(* at the first record that fails, so the result is the set of the errors  *)
(* Check may return: {Ok} when every record passes.                        *)
(***************************************************************************)
OneOf(errs) == IF errs = {} THEN {Ok} ELSE errs

HeaderCheck(o) == IF o.v < 0 THEN {ErrNegative} ELSE {Ok}

\* a faulty Box.Check, which rejects lo = hi (used to test C10_BoxInvariant)
BoxCheckStrict(o) == IF o.vlo >= o.vhi THEN {ErrLoHi} ELSE {Ok}

BoxCheck(o) == IF o.vlo > o.vhi THEN {ErrLoHi} ELSE {Ok}

\* a faulty test of a record of Masses, without the range of the type (used
\* to test C24_IdsContiguous)
MassesRowErrNoRange(typ, mass, types) == IF mass < 0 THEN ErrNegative ELSE Ok

\* the first error of one record of Masses
MassesRowErr(typ, mass, types) ==
  IF mass < 0 THEN ErrNegative
  ELSE IF typ < 1 \/ typ > types THEN ErrRange
  ELSE Ok

\* a faulty Masses.Check, without the test of the count (used to test
\* C5_CountMismatch)
MassesCheckNoCount(h, i) ==
  IF h[i].types = 0 THEN {ErrNilKey}
  ELSE OneOf({MassesRowErr(typ, h[i].tab.m[typ], h[h[i].types].v) :
                typ \in DOMAIN h[i].tab.m} \ {Ok})

MassesCheck(h, i) ==
  LET o == h[i]
      types == h[o.types].v
  IN IF o.types = 0 THEN {ErrNilKey}
     ELSE IF MapLen(o.tab) # types THEN {ErrCount}
     ELSE OneOf({MassesRowErr(typ, o.tab.m[typ], types) : typ \in DOMAIN o.tab.m} \ {Ok})

CoeffsCheck(h, i) ==
  LET o == h[i]
      types == h[o.types].v
  IN IF o.types = 0 THEN {ErrNilKey}
     ELSE IF MapLen(o.tab) # types THEN {ErrCount}
     ELSE OneOf({ErrRange : typ \in {t \in DOMAIN o.tab.m : t < 1 \/ t > types}})

\* a faulty test of a record of Atoms, which does not compare N (used to
\* test C3_AtomsCheck)
AtomsRowErrNoFlag(typ, atom, n, atomsNbr, atomsTypes) ==
  IF typ < 1 \/ typ > atomsNbr THEN ErrRange
  ELSE IF atom.AtomType < 1 \/ atom.AtomType > atomsTypes THEN ErrRange
  ELSE Ok

\* the first error of one record of Atoms, n being the N of the record the
\* range met first
AtomsRowErr(typ, atom, n, atomsNbr, atomsTypes) ==
  IF typ < 1 \/ typ > atomsNbr THEN ErrRange
  ELSE IF atom.AtomType < 1 \/ atom.AtomType > atomsTypes THEN ErrRange
  ELSE IF atom.N # n THEN ErrNFlag
  ELSE Ok

\* the errors the loop may return: the record met first sets the reference
\* n; the loop returns at the first record in its order that fails
AtomsCheck(h, i) ==
  LET o == h[i]
      atomsNbr == h[o.atomsNbr].v
      atomsTypes == h[o.types].v
      ids == DOMAIN o.tab.m
      E(id, n) == AtomsRowErr(id, o.tab.m[id], n, atomsNbr, atomsTypes)
      firstBad == {E(f, o.tab.m[f].N) : f \in ids} \ {Ok}
      laterBad == {E(id, o.tab.m[f].N) :
                     f \in {g \in ids : E(g, o.tab.m[g].N) = Ok}, id \in ids} \ {Ok}
  IN IF o.types = 0 \/ o.atomsNbr = 0 THEN {ErrNilKey}
     ELSE IF MapLen(o.tab) # atomsNbr THEN {ErrCount}
     ELSE IF MapLen(o.tab) = 0 THEN {Ok}
     ELSE OneOf(firstBad \cup laterBad)

\* the first error of one record of Links
LinksRowErr(id, link, nbr, types, atomsNbr) ==
  IF id < 1 \/ id > nbr THEN ErrRange
  ELSE IF link.typ < 1 \/ link.typ > types THEN ErrRange
  ELSE IF \E j \in 1..Len(link.links) : link.links[j] < 1 \/ link.links[j] > atomsNbr
       THEN ErrRange
  ELSE Ok

LinksCheck(h, i) ==
  LET o == h[i]
      nbr == h[o.nbr].v
      types == h[o.types].v
      atomsNbr == h[o.atomsNbr].v
  IN IF o.types = 0 \/ o.atomsNbr = 0 \/ o.nbr = 0 THEN {ErrNilKey}
     ELSE IF MapLen(o.tab) # nbr THEN {ErrCount}
     ELSE OneOf({LinksRowErr(id, o.tab.m[id], nbr, types, atomsNbr) :
                   id \in DOMAIN o.tab.m} \ {Ok})

Check(h, i) ==
  CASE h[i].kind = KindTitle -> {Ok}
    [] h[i].kind = KindHeader -> HeaderCheck(h[i])
    [] h[i].kind = KindBox -> BoxCheck(h[i])
    [] h[i].kind = KindMasses -> MassesCheck(h, i)
    [] h[i].kind = KindCoeffs -> CoeffsCheck(h, i)
    [] h[i].kind = KindAtoms -> AtomsCheck(h, i)
    [] h[i].kind = KindLinks -> LinksCheck(h, i)

(***************************************************************************)
(* Encode of a Key: the error and the text written to the writer (which    *)
(* never fails).                                                           *)
(***************************************************************************)
\* the concatenation of the strings of a sequence
RECURSIVE Concat(_)
Concat(ss) == IF Len(ss) = 0 THEN "" ELSE Head(ss) \o Concat(Tail(ss))

TitleEncode(o) == [err |-> Ok, w |-> o.s \o "\n"]

HeaderEncode(o) == [err |-> Ok, w |-> FmtInt(o.v) \o " " \o o.name \o "\n"]

BoxEncode(o) ==
  [err |-> Ok, w |-> FmtG(o.vlo) \o " " \o FmtG(o.vhi) \o " " \o o.name \o "\n"]

\* a table: nothing for the nil map but an error, nothing for the empty map,
\* else the Name, a blank line and the rows in increasing order of their keys
TableEncode(o, row) ==
  LET keys == sortIntsMap(o.tab.m)
  IN IF o.tab.nil THEN [err |-> ErrNilMap, w |-> ""]
     ELSE IF MapLen(o.tab) = 0 THEN [err |-> Ok, w |-> ""]
     ELSE [err |-> Ok,
           w |-> o.name \o "\n\n" \o Concat([j \in 1..Len(keys) |-> row[keys[j]]])]

MassesEncode(o) ==
  LET Row(k) == FmtInt(k) \o " " \o FmtG(o.tab.m[k]) \o "\n"
  IN TableEncode(o, [k \in DOMAIN o.tab.m |-> Row(k)])

CoeffsEncode(o) ==
  LET Row(k) ==
        FmtInt(k)
          \o Concat([j \in 1..Len(o.tab.m[k]) |-> " " \o FmtG(o.tab.m[k][j])])
          \o "\n"
  IN TableEncode(o, [k \in DOMAIN o.tab.m |-> Row(k)])

atomStyleFullEncode(atom) ==
  FmtInt(atom.MolTag) \o " " \o FmtInt(atom.AtomType) \o " " \o FmtG(atom.Q)
    \o " " \o FmtG(atom.X) \o " " \o FmtG(atom.Y) \o " " \o FmtG(atom.Z)

atomStyleAtomicEncode(atom) ==
  FmtInt(atom.AtomType) \o " " \o FmtG(atom.X) \o " " \o FmtG(atom.Y)
    \o " " \o FmtG(atom.Z)

AtomStyleEncode(as, atom) ==
  IF as = AtomStyleAtomic THEN atomStyleAtomicEncode(atom)
  ELSE atomStyleFullEncode(atom)

AtomsEncode(o) ==
  LET Row(k) ==
        LET v == o.tab.m[k]
        IN FmtInt(k) \o " " \o AtomStyleEncode(o.atomStyle, v)
             \o (IF v.N
                 THEN " " \o FmtInt(v.NX) \o " " \o FmtInt(v.NY) \o " "
                        \o FmtInt(v.NZ) \o "\n"
                 ELSE "\n")
  IN TableEncode(o, [k \in DOMAIN o.tab.m |-> Row(k)])

LinksEncode(o) ==
  LET Row(k) ==
        LET link == o.tab.m[k]
        IN FmtInt(k) \o " " \o FmtInt(link.typ)
             \o Concat([j \in 1..Len(link.links) |-> " " \o FmtInt(link.links[j])])
             \o "\n"
  IN TableEncode(o, [k \in DOMAIN o.tab.m |-> Row(k)])

Encode(o) ==
  CASE o.kind = KindTitle -> TitleEncode(o)
    [] o.kind = KindHeader -> HeaderEncode(o)
    [] o.kind = KindBox -> BoxEncode(o)
    [] o.kind = KindMasses -> MassesEncode(o)
    [] o.kind = KindCoeffs -> CoeffsEncode(o)
    [] o.kind = KindAtoms -> AtomsEncode(o)
    [] o.kind = KindLinks -> LinksEncode(o)

(***************************************************************************)
(* Decode of a Key.  doc is the sequence of the lines of the stream and    *)
(* pos the number of lines the Scanner has returned so far; r.Scan() is    *)
(* pos < Len(doc) and moves pos to pos + 1, r.Text() is then doc[pos].     *)
(***************************************************************************)
\* Header.Decode: h.v is assigned whether or not Atoi fails
HeaderDecode(o) ==
  LET r == Atoi(o.vBytes[1])
  IN [err |-> IF r.ok THEN Ok ELSE ErrParse, o |-> [o EXCEPT !.v = r.v]]

\* Box.Decode: vhi is parsed only once vlo has parsed
BoxDecode(o) ==
  LET lo == ParseFloat(o.vBytes[1])
      hi == ParseFloat(o.vBytes[2])
  IN IF ~lo.ok THEN [err |-> ErrParse, o |-> [o EXCEPT !.vlo = lo.v]]
     ELSE [err |-> IF hi.ok THEN Ok ELSE ErrParse,
           o |-> [o EXCEPT !.vlo = lo.v, !.vhi = hi.v]]

TitleDecode(o, s) == [err |-> Ok, o |-> [o EXCEPT !.s = s]]

\* one row of Masses: the error, the key and the record
MassesRow(o, line) ==
  LET f == Fields(line)
      atomType == Atoi(f[1])
      mass == ParseFloat(f[2])
  IN IF Len(f) < 2 THEN [err |-> ErrFields, id |-> 0, row |-> 0]
     ELSE IF ~atomType.ok THEN [err |-> ErrParse, id |-> 0, row |-> 0]
     ELSE IF ~mass.ok THEN [err |-> ErrParse, id |-> 0, row |-> 0]
     ELSE [err |-> Ok, id |-> atomType.v, row |-> mass.v]

\* one row of Coeffs
CoeffsRow(o, line) ==
  LET f == Fields(delComments(line))
      typ == Atoi(f[1])
      coeffs == [j \in 1..(Len(f) - 1) |-> ParseFloat(f[j + 1])]
  IN IF Len(f) < 2 THEN [err |-> ErrFields, id |-> 0, row |-> 0]
     ELSE IF ~typ.ok THEN [err |-> ErrParse, id |-> 0, row |-> 0]
     ELSE IF \E j \in 1..Len(coeffs) : ~coeffs[j].ok
          THEN [err |-> ErrParse, id |-> 0, row |-> 0]
     ELSE [err |-> Ok, id |-> typ.v, row |-> [j \in 1..Len(coeffs) |-> coeffs[j].v]]

\* atomStyleFull.Decode: the result atom is a nil *Atom that nothing
\* allocates, so the first assignment to one of its fields (atom.MolTag)
\* dereferences nil and the call panics
atomStyleFullDecode(f) ==
  IF Len(f) < 7 THEN [err |-> ErrFields, id |-> 0, row |-> 0]
  ELSE IF ~Atoi(f[1]).ok THEN [err |-> ErrParse, id |-> 0, row |-> 0]
  ELSE [err |-> Panic, id |-> Atoi(f[1]).v, row |-> 0]

\* atomStyleAtomic.Decode: the same, at atom.AtomType
atomStyleAtomicDecode(f) ==
  IF Len(f) < 5 THEN [err |-> ErrFields, id |-> 0, row |-> 0]
  ELSE IF ~Atoi(f[1]).ok THEN [err |-> ErrParse, id |-> 0, row |-> 0]
  ELSE [err |-> Panic, id |-> Atoi(f[1]).v, row |-> 0]

AtomStyleDecode(as, f) ==
  IF as = AtomStyleAtomic THEN atomStyleAtomicDecode(f) ELSE atomStyleFullDecode(f)

\* one row of Atoms
AtomsRow(o, line) == AtomStyleDecode(o.atomStyle, Fields(delComments(line)))

\* one row of Links
LinksRow(o, line) ==
  LET f == Fields(line)
      id == Atoi(f[1])
      typ == Atoi(f[2])
      links == [j \in 1..(o.links - 2) |-> Atoi(f[j + 2])]
  IN IF Len(f) < o.links THEN [err |-> ErrFields, id |-> 0, row |-> 0]
     ELSE IF ~id.ok THEN [err |-> ErrParse, id |-> 0, row |-> 0]
     ELSE IF ~typ.ok THEN [err |-> ErrParse, id |-> 0, row |-> 0]
     ELSE IF \E j \in 1..Len(links) : ~links[j].ok
          THEN [err |-> ErrParse, id |-> 0, row |-> 0]
     ELSE [err |-> Ok, id |-> id.v,
           row |-> Link(typ.v, [j \in 1..Len(links) |-> links[j].v])]

TableRow(o, line) ==
  CASE o.kind = KindMasses -> MassesRow(o, line)
    [] o.kind = KindCoeffs -> CoeffsRow(o, line)
    [] o.kind = KindAtoms -> AtomsRow(o, line)
    [] o.kind = KindLinks -> LinksRow(o, line)

\* the loop "for i := 0; i < n && r.Scan(); i++" of a table's Decode: the
\* error, the map and the position it ends with
RECURSIVE TableRows(_, _, _, _, _, _)
TableRowsNext(o, tab, doc, pos, i, n, r) ==
  IF r.err # Ok THEN [err |-> r.err, tab |-> tab, pos |-> pos + 1]
  ELSE TableRows(o, MapPut(tab, r.id, r.row), doc, pos + 1, i + 1, n)

TableRows(o, tab, doc, pos, i, n) ==
  IF i >= n \/ pos >= Len(doc) THEN [err |-> Ok, tab |-> tab, pos |-> pos]
  ELSE TableRowsNext(o, tab, doc, pos, i, n, TableRow(o, doc[pos + 1]))

\* what a table's Decode returns once its loop has ended with rows
TableDecodeEnd(h, i, rows) ==
  [err |-> rows.err, h |-> [h EXCEPT ![i].tab = rows.tab], pos |-> rows.pos]

\* a faulty Decode of a table, which reads rows to the end of the stream
\* whatever its Counter holds (used to test C28_RowsDropped)
TableDecodeAllRows(h, i, doc, pos) ==
  IF CountKey(h[i]) = 0 THEN [err |-> ErrNilKey, h |-> h, pos |-> pos]
  ELSE IF pos >= Len(doc) /\ h[i].kind = KindAtoms
       THEN [err |-> Ok, h |-> h, pos |-> pos]
  ELSE IF pos >= Len(doc)
       THEN [err |-> Ok, h |-> [h EXCEPT ![i].tab = MakeMap], pos |-> pos]
  ELSE TableDecodeEnd(h, i, TableRows(h[i], MakeMap, doc, pos + 1, 0, Len(doc)))

\* Masses.Decode, Coeffs.Decode, Atoms.Decode, Links.Decode: the separator
\* line, then the rows.  Atoms makes its map after the separator line is
\* read, the others before.
TableDecode(h, i, doc, pos) ==
  IF CountKey(h[i]) = 0 THEN [err |-> ErrNilKey, h |-> h, pos |-> pos]
  ELSE IF pos >= Len(doc) /\ h[i].kind = KindAtoms
       THEN [err |-> Ok, h |-> h, pos |-> pos]
  ELSE IF pos >= Len(doc)
       THEN [err |-> Ok, h |-> [h EXCEPT ![i].tab = MakeMap], pos |-> pos]
  ELSE TableDecodeEnd(h, i,
         TableRows(h[i], MakeMap, doc, pos + 1, 0, h[CountKey(h[i])].v))

\* k.Decode(s, r)
Decode(h, i, s, doc, pos) ==
  LET pack(r) == [err |-> r.err, h |-> [h EXCEPT ![i] = r.o], pos |-> pos]
  IN CASE h[i].kind = KindTitle -> pack(TitleDecode(h[i], s))
       [] h[i].kind = KindHeader -> pack(HeaderDecode(h[i]))
       [] h[i].kind = KindBox -> pack(BoxDecode(h[i]))
       [] OTHER -> TableDecode(h, i, doc, pos)

(***************************************************************************)
(* MakeKeys.  m is the makeKeys struct: the map k from Names to Keys       *)
(* (addresses) and, here, the heap the Keys are allocated in.              *)
(***************************************************************************)
\* a faulty list, which leaves out the 'atoms' Counter of Atoms and the row
\* Counter of the Links (used to test C23_FullyWired)
DepNamesShort(name) ==
  CASE name \in {NamePairCoeffs, NameMasses, NameAtoms} -> << NameAtomTypes >>
    [] name = NameBondCoeffs -> << NameBondTypes >>
    [] name = NameAngleCoeffs -> << NameAngleTypes >>
    [] name = NameDihedralCoeffs -> << NameDihedralTypes >>
    [] name = NameBonds -> << NameAtomsNbr, NameBondTypes >>
    [] name = NameAngles -> << NameAtomsNbr, NameAngleTypes >>
    [] name = NameDihedrals -> << NameAtomsNbr, NameDihedralTypes >>
    [] OTHER -> << >>

\* the Names m.New passes on to SetKeys, in the order of the call
DepNames(name) ==
  CASE name = NamePairCoeffs -> << NameAtomTypes >>
    [] name = NameBondCoeffs -> << NameBondTypes >>
    [] name = NameAngleCoeffs -> << NameAngleTypes >>
    [] name = NameDihedralCoeffs -> << NameDihedralTypes >>
    [] name = NameMasses -> << NameAtomTypes >>
    [] name = NameAtoms -> << NameAtomTypes, NameAtomsNbr >>
    [] name = NameBonds -> << NameAtomsNbr, NameBondsNbr, NameBondTypes >>
    [] name = NameAngles -> << NameAtomsNbr, NameAnglesNbr, NameAngleTypes >>
    [] name = NameDihedrals -> << NameAtomsNbr, NameDihedralsNbr, NameDihedralTypes >>
    [] OTHER -> << >>

\* the Key the switch of m.New constructs for a Name
Construct(name, as) ==
  CASE name \in {NamePairCoeffs, NameBondCoeffs, NameAngleCoeffs, NameDihedralCoeffs}
         -> NewCoeffs(name)
    [] name \in {NameAtomsNbr, NameBondsNbr, NameAnglesNbr, NameDihedralsNbr,
                 NameAtomTypes, NameBondTypes, NameAngleTypes, NameDihedralTypes}
         -> NewHeader(name)
    [] name \in {NameBoxX, NameBoxY, NameBoxZ} -> NewBox(name)
    [] name = NameMasses -> NewMasses
    [] name = NameAtoms -> NewAtoms(as)
    [] name = NameBonds -> NewLinks(name, 2)
    [] name = NameAngles -> NewLinks(name, 3)
    [] name = NameDihedrals -> NewLinks(name, 4)
    [] name = NameTitle -> NewTitle

\* makeKeys.New: the Key of the map if there is one; else a new Key, wired
\* by SetKeys to the Keys m.New returns for its dependencies, and stored.
\* The result is m afterwards and the Key v.  A Name that is none of the
\* cases of the switch makes it panic: m.panic records that the call never
\* returned.
RECURSIVE New(_, _)
RECURSIVE NewDeps(_, _)
NewDeps(m, names) ==
  IF Len(names) = 0 THEN [m |-> m, vs |-> << >>]
  ELSE LET r == New(m, Head(names))
           rest == NewDeps(r.m, Tail(names))
       IN [m |-> rest.m, vs |-> << r.v >> \o rest.vs]

\* a faulty m.New, which does not look the Name up in the map first (used
\* to test C6_Sharing)
NewNoMemo(m, name) ==
  IF ~IsName(name) THEN [m |-> [m EXCEPT !.panic = TRUE], v |-> 0]
  ELSE
  LET v == Len(m.heap) + 1
      m0 == [m EXCEPT !.heap = Append(m.heap, Construct(name, m.as))]
      deps == NewDeps(m0, DepNames(name))
      wired == IF Len(DepNames(name)) = 0 THEN deps.m.heap
               ELSE SetKeys(deps.m.heap, v, deps.vs).h
  IN [m |-> [deps.m EXCEPT !.heap = wired, !.k = (name :> v) @@ deps.m.k],
      v |-> v]

New(m, name) ==
  IF name \in DOMAIN m.k THEN [m |-> m, v |-> m.k[name]]
  ELSE IF ~IsName(name) THEN [m |-> [m EXCEPT !.panic = TRUE], v |-> 0]
  ELSE LET v == Len(m.heap) + 1
           m0 == [m EXCEPT !.heap = Append(m.heap, Construct(name, m.as))]
           deps == NewDeps(m0, DepNames(name))
           wired == IF Len(DepNames(name)) = 0 THEN deps.m.heap
                    ELSE SetKeys(deps.m.heap, v, deps.vs).h
       IN [m |-> [deps.m EXCEPT !.heap = wired, !.k = (name :> v) @@ deps.m.k],
           v |-> v]

RECURSIVE MakeKeysFrom(_, _)
MakeKeysFrom(m, names) ==
  IF Len(names) = 0 \/ m.panic THEN m
  ELSE MakeKeysFrom(New(m, Head(names)).m, Tail(names))

MakeKeys(names, as) ==
  MakeKeysFrom([k |-> << >>, heap |-> << >>, as |-> as, panic |-> FALSE], names)

(***************************************************************************)
(* createNames.  A struct type is the sequence of its tagged fields, each  *)
(* [tag, type]: the lmpsdat tag and the Go type of the field; a struct     *)
(* value is the sequence of the values of these fields.                    *)
(***************************************************************************)
RECURSIVE TrimRightSpace(_)
TrimRightSpace(s) ==
  IF Len(s) > 0 /\ IsSpace(At(s, Len(s)))
  THEN TrimRightSpace(SubSeq(s, 1, Len(s) - 1)) ELSE s

\* strings.TrimSpace
TrimSpace(s) == TrimLeftSpace(TrimRightSpace(s))

\* the tag of a field as createNames reads it: the Name and, for a tag
\* "Atoms, <style>" with a supported style, the style (else "")
TagName(v) ==
  LET idx == IndexFrom(v, {","}, 1)
  IN IF HasPrefix(v, NameAtoms) /\ idx >= 0 THEN TrimSpace(SubSeq(v, 1, idx)) ELSE v

TagStyle(v) ==
  LET idx == IndexFrom(v, {","}, 1)
      as == TrimSpace(SubSeq(v, idx + 2, Len(v)))
  IN IF HasPrefix(v, NameAtoms) /\ idx >= 0 /\ IsAtomStyle(as) THEN as ELSE ""

\* a faulty loop of createNames, which keeps the Names it does not know
\* (used to test C11_CreateNamesDrops)
RECURSIVE createNamesLoopKeepAll(_, _, _)
createNamesLoopKeepAll(fields, i, acc) ==
  IF i > Len(fields) THEN acc
  ELSE createNamesLoopKeepAll(fields, i + 1,
         [atomStyle |-> IF TagStyle(fields[i].tag) # "" THEN TagStyle(fields[i].tag)
                        ELSE acc.atomStyle,
          names |-> Append(acc.names, TagName(fields[i].tag)),
          namesFields |-> (TagName(fields[i].tag) :> i) @@ acc.namesFields])

\* the loop of createNames over the fields 1..n: the Names kept, the field
\* of each (the last field of a Name wins) and the atom style
RECURSIVE createNamesLoop(_, _, _)
createNamesLoop(fields, i, acc) ==
  IF i > Len(fields) THEN acc
  ELSE LET v == fields[i].tag
           n == TagName(v)
           as == IF TagStyle(v) # "" THEN TagStyle(v) ELSE acc.atomStyle
       IN IF IsName(n)
          THEN createNamesLoop(fields, i + 1,
                 [atomStyle |-> as, names |-> Append(acc.names, n),
                  namesFields |-> (n :> i) @@ acc.namesFields])
          ELSE createNamesLoop(fields, i + 1, [acc EXCEPT !.atomStyle = as])

createNames(fields) ==
  LET r == createNamesLoop(fields, 1,
             [atomStyle |-> AtomStyleFull, names |-> << >>, namesFields |-> << >>])
      m == MakeKeys(r.names, r.atomStyle)
  IN [namesFields |-> r.namesFields, keys |-> m.k, heap |-> m.heap, panic |-> m.panic]

\* headBody: the Names of the Keys that are Headers or Boxes
headBody(h, ks) == {n \in DOMAIN ks : IsHeader(h[ks[n]])}

(***************************************************************************)
(* The state.                                                              *)
(*   op        the operation under way: "Encode", "Decode", or the name of *)
(*             a specification that drives the Keys directly               *)
(*   pc        where the operation stands                                  *)
(*   fields    the struct type passed (its tagged fields)                  *)
(*   val       the struct value Encode reads                               *)
(*   dst       the struct value Decode fills                               *)
(*   text      the bytes of the Decoder's reader                           *)
(*   out       the bytes written to the Encoder's writer                   *)
(*   nFields, keys, heap   what createNames returns: Name -> field,        *)
(*             Name -> Key, and the Keys                                   *)
(*   todo      the Names the loop of Encode over nFields has yet to visit  *)
(*   doc, pos  the lines of text and how many the Scanner has returned     *)
(*   inHeader, kHead, kBody   the Decoder's phase and its two pools        *)
(*   err       the error the operation returned, once it has               *)
(*   last      the last call made on a Key and its result                  *)
(***************************************************************************)
VARIABLES op, pc, fields, val, dst, text, out, nFields, keys, heap, todo,
          doc, pos, inHeader, kHead, kBody, err, last

vars == << op, pc, fields, val, dst, text, out, nFields, keys, heap, todo,
           doc, pos, inHeader, kHead, kBody, err, last >>

NoErr == [stage |-> "", key |-> "", why |-> Ok]
Err(stage, key, why) == [stage |-> stage, key |-> key, why |-> why]
NoCall == [call |-> "", key |-> "", res |-> Ok]

\* the zero value of a Go type
Zero(t) ==
  CASE t = TypeInt -> IntVal(0)
    [] t = TypeString -> StrVal("")
    [] t = TypeBox -> BoxVal(0, 0)
    [] OTHER -> MapVal(t, NilMap)

(***************************************************************************)
(* Encoder.Encode                                                          *)
(***************************************************************************)
\* lines 73-84: the reflection of v, and createNames
EncStart ==
  /\ op = "Encode" /\ pc = "start"
  /\ LET c == createNames(fields)
     IN /\ nFields' = c.namesFields
        /\ keys' = c.keys
        /\ heap' = c.heap
        /\ todo' = DOMAIN c.namesFields
  /\ pc' = "enc_assign"
  /\ UNCHANGED << op, fields, val, dst, text, out, doc, pos, inHeader, kHead,
                  kBody, err, last >>

\* lines 86-95: one turn of the loop over nFields, which Go visits in an
\* unspecified order: Set the field's value, then SetKeysVal
EncAssign ==
  /\ pc = "enc_assign"
  /\ \E n \in todo :
       LET k == keys[n]
           r == Set(heap[k], val[nFields[n]])
           h1 == [heap EXCEPT ![k] = r.o]
           p == SetKeysVal(h1, k)
       IN IF r.err # Ok
          THEN /\ heap' = h1
               /\ err' = Err("Set", n, r.err)
               /\ pc' = "enc_done"
               /\ todo' = todo
          ELSE IF p.err \notin {Ok, ErrUnsupported}
          THEN /\ heap' = p.h
               /\ err' = Err("SetKeysVal", n, p.err)
               /\ pc' = "enc_done"
               /\ todo' = todo
          ELSE /\ heap' = p.h
               /\ err' = err
               /\ todo' = todo \ {n}
               /\ pc' = IF todo \ {n} = {} THEN "enc_check" ELSE "enc_assign"
  /\ UNCHANGED << op, fields, val, dst, text, out, nFields, keys, doc, pos,
                  inHeader, kHead, kBody, last >>

\* the (Name, error) pairs the loop "for _, k := range keys: k.Check()" may
\* return with: the loop stops at the first Key that fails, in map order
Failing(h, ks) ==
  UNION {{<< n, e >> : e \in Check(h, ks[n]) \ {Ok}} : n \in DOMAIN ks}

\* a faulty Encode, which goes on to write whatever Check returns (used to
\* test C8_ValidateBeforeWrite)
EncCheckSkip ==
  /\ pc = "enc_check"
  /\ pc' = "enc_write" /\ err' = err
  /\ UNCHANGED << op, fields, val, dst, text, out, nFields, keys, heap, todo,
                  doc, pos, inHeader, kHead, kBody, last >>

\* lines 97-102: Check on every Key
EncCheck ==
  /\ pc = "enc_check"
  /\ IF Failing(heap, keys) = {}
     THEN pc' = "enc_write" /\ err' = err
     ELSE \E f \in Failing(heap, keys) :
            pc' = "enc_done" /\ err' = Err("Check", f[1], f[2])
  /\ UNCHANGED << op, fields, val, dst, text, out, nFields, keys, heap, todo,
                  doc, pos, inHeader, kHead, kBody, last >>

\* the order of the sections (lines 111, 125, 139 and 152)
NbrOrder == << NameAtomsNbr, NameBondsNbr, NameAnglesNbr, NameDihedralsNbr >>
TypesOrder == << NameAtomTypes, NameBondTypes, NameAngleTypes, NameDihedralTypes >>
BoxOrder == << NameBoxX, NameBoxY, NameBoxZ >>
\* a faulty order of the tables, Atoms before Masses (used to test
\* C7_CanonicalOrder)
TablesOrderSwapped ==
  << NameAtoms, NamePairCoeffs, NameBondCoeffs, NameAngleCoeffs,
     NameDihedralCoeffs, NameMasses, NameBonds, NameAngles, NameDihedrals >>

TablesOrder ==
  << NameMasses, NamePairCoeffs, NameBondCoeffs, NameAngleCoeffs,
     NameDihedralCoeffs, NameAtoms, NameBonds, NameAngles, NameDihedrals >>

\* one of the loops of Encode over a list of Names: each Key of the list
\* that is in keys is encoded, and followed by a newline if each is set;
\* acc is [err, key, w, set], the loop stops at the first error
RECURSIVE EncodeList(_, _, _, _, _)
EncodeListNext(h, ks, names, each, acc, r) ==
  IF r.err # Ok THEN [acc EXCEPT !.err = r.err, !.key = Head(names)]
  ELSE EncodeList(h, ks, Tail(names), each,
         [acc EXCEPT !.w = @ \o r.w \o (IF each THEN "\n" ELSE ""),
                     !.set = TRUE])

EncodeList(h, ks, names, each, acc) ==
  IF Len(names) = 0 THEN acc
  ELSE IF Head(names) \notin DOMAIN ks THEN EncodeList(h, ks, Tail(names), each, acc)
  ELSE EncodeListNext(h, ks, names, each, acc, Encode(h[ks[Head(names)]]))

\* the newline that ends a header group of which a Key was written
EncodeGroupEnd(r) ==
  IF r.err = Ok /\ r.set THEN [r EXCEPT !.w = @ \o "\n"] ELSE r

\* a header group: its Keys, then a newline if there was one
EncodeGroup(h, ks, names, acc) ==
  IF acc.err # Ok THEN acc
  ELSE EncodeGroupEnd(EncodeList(h, ks, names, FALSE, [acc EXCEPT !.set = FALSE]))

\* lines 104-108: the title and the blank line after it
EncodeTitle(h, ks) ==
  [err |-> Ok, key |-> "",
   w |-> (IF NameTitle \in DOMAIN ks THEN Get(h[ks[NameTitle]]).s ELSE "") \o "\n\n",
   set |-> FALSE]

\* lines 152-160: the tables, each followed by a newline
EncodeTables(h, ks, acc) ==
  IF acc.err # Ok THEN acc ELSE EncodeList(h, ks, TablesOrder, TRUE, acc)

\* lines 104-160: what Encode writes once the Keys have passed Check
EncodeAll(h, ks) ==
  EncodeTables(h, ks,
    EncodeGroup(h, ks, BoxOrder,
      EncodeGroup(h, ks, TypesOrder,
        EncodeGroup(h, ks, NbrOrder, EncodeTitle(h, ks)))))

EncWrite ==
  /\ pc = "enc_write"
  /\ LET r == EncodeAll(heap, keys)
     IN /\ out' = r.w
        /\ err' = IF r.err # Ok THEN Err("Encode", r.key, r.err) ELSE err
  /\ pc' = "enc_done"
  /\ UNCHANGED << op, fields, val, dst, text, nFields, keys, heap, todo, doc,
                  pos, inHeader, kHead, kBody, last >>

(***************************************************************************)
(* Decoder.Decode                                                          *)
(***************************************************************************)
\* the heap once Keyword(s) has been called on the Keys named in T
Tested(h, ks, T, s) ==
  [i \in DOMAIN h |-> IF \E n \in T : ks[n] = i THEN Keyword(h[i], s).o ELSE h[i]]

\* keyDecode, on the line s = doc[pos]: the results it may return.  Go
\* visits the pool in an unspecified order, so the Key that decodes is any
\* Key of the pool whose Keyword is true, and the Keys tested before it are
\* any of those whose Keyword is false (T ranges over the ones Keyword
\* leaves a trace in).  A result is [ok, err, key, h, pool, pos].
\* a faulty keyDecode, which leaves the Key it has decoded in the pool (used
\* to test C14_DecodedOnce)
keyDecodeRunKeep(pool, n, r) ==
  [ok |-> TRUE, err |-> r.err, key |-> n, h |-> r.h, pool |-> pool, pos |-> r.pos]

keyDecodeRun(pool, n, r) ==
  [ok |-> TRUE, err |-> r.err, key |-> n, h |-> r.h,
   pool |-> IF r.err = Ok THEN pool \ {n} ELSE pool, pos |-> r.pos]

keyDecodeFrom(h, ks, pool, s, d, p, M, N) ==
  IF M = {}
  THEN {[ok |-> FALSE, err |-> Ok, key |-> "", h |-> Tested(h, ks, N, s),
         pool |-> pool, pos |-> p]}
  ELSE {keyDecodeRun(pool, x[1],
          Decode(Tested(h, ks, x[2] \cup {x[1]}, s), ks[x[1]], s, d, p)) :
        x \in M \X SUBSET N}

keyDecode(h, ks, pool, s, d, p) ==
  keyDecodeFrom(h, ks, pool, s, d, p,
    {n \in pool : Keyword(h[ks[n]], s).ok},
    {n \in pool : ~Keyword(h[ks[n]], s).ok /\ Keyword(h[ks[n]], s).o # h[ks[n]]})

\* a faulty start of Decode, which gives the first line to the Title and
\* leaves it to the loop as well (used to test C30_TitleLine)
DecStartMatch ==
  /\ op = "Decode" /\ pc = "start"
  /\ LET c == createNames(fields)
         lines == ScanLines(text)
         t == c.keys[NameTitle]
         r == Set(c.heap[t], StrVal(lines[1]))
     IN /\ nFields' = c.namesFields
        /\ keys' = c.keys
        /\ kHead' = headBody(c.heap, c.keys)
        /\ kBody' = (DOMAIN c.keys) \ headBody(c.heap, c.keys)
        /\ doc' = lines
        /\ IF Len(lines) = 0
           THEN heap' = c.heap /\ pos' = 0 /\ pc' = "dec_done" /\ err' = err
           ELSE IF NameTitle \notin DOMAIN c.keys
           THEN heap' = c.heap /\ pos' = 0 /\ pc' = "dec_loop" /\ err' = err
           ELSE /\ heap' = [c.heap EXCEPT ![t] = r.o]
                /\ pos' = 0
                /\ pc' = IF r.err = Ok THEN "dec_loop" ELSE "dec_done"
                /\ err' = IF r.err = Ok THEN err ELSE Err("Set", NameTitle, r.err)
  /\ inHeader' = TRUE
  /\ UNCHANGED << op, fields, val, dst, text, out, todo, last >>

\* lines 27-55: the reflection of v, createNames, headBody, and the title line
DecStart ==
  /\ op = "Decode" /\ pc = "start"
  /\ LET c == createNames(fields)
         lines == ScanLines(text)
         t == c.keys[NameTitle]
         r == Set(c.heap[t], StrVal(lines[1]))
     IN /\ nFields' = c.namesFields
        /\ keys' = c.keys
        /\ kHead' = headBody(c.heap, c.keys)
        /\ kBody' = (DOMAIN c.keys) \ headBody(c.heap, c.keys)
        /\ doc' = lines
        /\ IF Len(lines) = 0
           THEN heap' = c.heap /\ pos' = 0 /\ pc' = "dec_done" /\ err' = err
           ELSE IF NameTitle \notin DOMAIN c.keys
           THEN heap' = c.heap /\ pos' = 1 /\ pc' = "dec_loop" /\ err' = err
           ELSE /\ heap' = [c.heap EXCEPT ![t] = r.o]
                /\ pos' = 1
                /\ pc' = IF r.err = Ok THEN "dec_loop" ELSE "dec_done"
                /\ err' = IF r.err = Ok THEN err ELSE Err("Set", NameTitle, r.err)
  /\ inHeader' = TRUE
  /\ UNCHANGED << op, fields, val, dst, text, out, todo, last >>

\* how Decode ends when k.Decode fails: with its error, or in the panic
Failed(r) ==
  IF r.err = Panic THEN Err("panic", r.key, Panic) ELSE Err("Decode", r.key, r.err)

\* lines 57-73: one turn of the loop "for r.Scan()", the test "if inHeader"
\* being phase
DecLineIn(phase) ==
  /\ pc = "dec_loop" /\ pos < Len(doc)
  /\ LET s == doc[pos + 1]
         Body(h) ==
           \E b \in keyDecode(h, keys, kBody, s, doc, pos + 1) :
             /\ heap' = b.h
             /\ pos' = b.pos
             /\ kBody' = b.pool
             /\ kHead' = kHead
             /\ IF b.err # Ok
                THEN pc' = "dec_done" /\ err' = Failed(b) /\ inHeader' = inHeader
                ELSE /\ pc' = pc /\ err' = err
                     /\ inHeader' = IF b.ok THEN FALSE ELSE inHeader
     IN IF phase
        THEN \E a \in keyDecode(heap, keys, kHead, s, doc, pos + 1) :
               IF a.err # Ok
               THEN /\ heap' = a.h /\ pos' = a.pos /\ kHead' = a.pool
                    /\ pc' = "dec_done" /\ err' = Failed(a)
                    /\ UNCHANGED << kBody, inHeader >>
               ELSE IF a.ok
               THEN /\ heap' = a.h /\ pos' = a.pos /\ kHead' = a.pool
                    /\ UNCHANGED << pc, err, kBody, inHeader >>
               ELSE Body(a.h)
        ELSE Body(heap)
  /\ UNCHANGED << op, fields, val, dst, text, out, nFields, keys, todo, doc, last >>

\* a faulty loop, which tests the Headers and the Boxes on every line (used
\* to test C13_BodyIrreversible)
DecLineAnyPhase == DecLineIn(TRUE)

DecLine == DecLineIn(inHeader)

\* a faulty Decode, which runs Check before the stream has ended (used to
\* test C16_CheckAtEnd)
DecCheckEarly ==
  /\ pc = "dec_loop"
  /\ IF Failing(heap, keys) = {}
     THEN pc' = (IF pos >= Len(doc) THEN "dec_copy" ELSE pc) /\ err' = err
     ELSE \E f \in Failing(heap, keys) :
            pc' = "dec_done" /\ err' = Err("Check", f[1], f[2])
  /\ UNCHANGED << op, fields, val, dst, text, out, nFields, keys, heap, todo,
                  doc, pos, inHeader, kHead, kBody, last >>

\* a faulty Decode, which copies the values whatever Check returns (used to
\* test C9_DecodeValidates)
DecCheckSkip ==
  /\ pc = "dec_loop" /\ pos >= Len(doc)
  /\ pc' = "dec_copy" /\ err' = err
  /\ UNCHANGED << op, fields, val, dst, text, out, nFields, keys, heap, todo,
                  doc, pos, inHeader, kHead, kBody, last >>

\* a faulty Decode, which copies the values of the Keys into the fields
\* before it runs Check (used to test C26_NoPartialCopy)
DecCheckAfterCopy ==
  /\ pc = "dec_loop" /\ pos >= Len(doc)
  /\ IF Failing(heap, keys) = {}
     THEN pc' = "dec_copy" /\ err' = err /\ dst' = dst
     ELSE \E f \in Failing(heap, keys) :
            /\ pc' = "dec_done" /\ err' = Err("Check", f[1], f[2])
            /\ dst' = [i \in DOMAIN dst |->
                         IF \E n \in DOMAIN nFields :
                              nFields[n] = i /\ fields[i].type = Get(heap[keys[n]]).t
                         THEN Get(heap[keys[CHOOSE n \in DOMAIN nFields : nFields[n] = i]])
                         ELSE dst[i]]
  /\ UNCHANGED << op, fields, val, text, out, nFields, keys, heap, todo,
                  doc, pos, inHeader, kHead, kBody, last >>

\* lines 77-82: at the end of the stream, Check on every Key
DecCheck ==
  /\ pc = "dec_loop" /\ pos >= Len(doc)
  /\ IF Failing(heap, keys) = {}
     THEN pc' = "dec_copy" /\ err' = err
     ELSE \E f \in Failing(heap, keys) :
            pc' = "dec_done" /\ err' = Err("Check", f[1], f[2])
  /\ UNCHANGED << op, fields, val, dst, text, out, nFields, keys, heap, todo,
                  doc, pos, inHeader, kHead, kBody, last >>

\* lines 84-91: the values of the Keys are copied into the fields, in an
\* unspecified order; a field whose type is not the type of the value ends
\* the loop with an error, the fields visited before it being set
DecCopy ==
  /\ pc = "dec_copy"
  /\ LET names == DOMAIN nFields
         value(n) == Get(heap[keys[n]])
         bad == {n \in names : fields[nFields[n]].type # value(n).t}
         put(C) == [i \in DOMAIN dst |->
                      IF \E n \in C : nFields[n] = i
                      THEN value(CHOOSE n \in C : nFields[n] = i)
                      ELSE dst[i]]
     IN IF bad = {}
        THEN dst' = put(names) /\ err' = err
        ELSE \E b \in bad, C \in SUBSET (names \ bad) :
               dst' = put(C) /\ err' = Err("Assign", b, ErrType)
  /\ pc' = "dec_done"
  /\ UNCHANGED << op, fields, val, text, out, nFields, keys, heap, todo, doc,
                  pos, inHeader, kHead, kBody, last >>

(***************************************************************************)
(* The inputs.  MaxCount bounds the counts, and so the identifiers and     *)
(* the sizes of the tables, of the struct values Encode is given.          *)
(***************************************************************************)
MaxCount == 2

F(tag, type) == [tag |-> tag, type |-> type]

\* the records the tables are built of
Atom1 == Atom(1, 1, 0, 5, 5, 5, FALSE, 0, 0, 0)
AtomN == Atom(1, 1, -5, 5, 5, 6, TRUE, 0, -1, 1)
AtomT2 == Atom(1, 2, 0, 5, 5, 6, FALSE, 0, 0, 0)

\* the map with the keys 1..k, each with the record row
Rows(k, row) == MapOf([j \in 1..k |-> row])

IntVals == {IntVal(i) : i \in 0..MaxCount}
TitleVals == {StrVal("My title")}
BoxVals == {BoxVal(0, 10), BoxVal(10, 0), BoxVal(-5, -5)}
MassesVals ==
  {MapVal(TypeMasses, t) :
     t \in {NilMap} \cup {Rows(k, 10) : k \in 0..MaxCount}
            \cup {MapOf((MaxCount + 1) :> 5), Rows(1, -10)}}
CoeffsVals ==
  {MapVal(TypeCoeffs, t) :
     t \in {NilMap} \cup {Rows(k, << 10, 5 >>) : k \in 0..MaxCount}
            \cup {Rows(1, << >>), MapOf((MaxCount + 1) :> << 10, 5 >>)}}
AtomsVals ==
  {MapVal(TypeAtoms, t) :
     t \in {NilMap} \cup {Rows(k, Atom1) : k \in 0..MaxCount}
            \cup {Rows(1, AtomN), Rows(1, AtomT2), MapOf((1 :> Atom1) @@ (2 :> AtomN)),
                  MapOf((MaxCount + 1) :> Atom1)}}
LinksVals ==
  {MapVal(TypeLinks, t) :
     t \in {NilMap} \cup {Rows(k, Link(1, << 1, 2 >>)) : k \in 0..MaxCount}
            \cup {Rows(1, Link(1, << 1, MaxCount + 1 >>)), Rows(1, Link(1, << 1 >>)),
                  MapOf((MaxCount + 1) :> Link(1, << 1, 2 >>))}}

\* the values a field of a Go type may hold
ValsOf(type) ==
  CASE type = TypeInt -> IntVals
    [] type = TypeString -> TitleVals
    [] type = TypeBox -> BoxVals
    [] type = TypeMasses -> MassesVals
    [] type = TypeCoeffs -> CoeffsVals
    [] type = TypeAtoms -> AtomsVals
    [] type = TypeLinks -> LinksVals

\* the struct values of a struct type
RECURSIVE StructValsFrom(_, _)
StructValsFrom(fs, i) ==
  IF i > Len(fs) THEN {<< >>}
  ELSE {<< v >> \o rest : v \in ValsOf(fs[i].type), rest \in StructValsFrom(fs, i + 1)}

StructVals(fs) == StructValsFrom(fs, 1)

ZeroStruct(fs) == [i \in DOMAIN fs |-> Zero(fs[i].type)]

\* the struct types Encode is given
EncTypes ==
  { << F(NameTitle, TypeString), F(NameBoxX, TypeBox), F(NameMasses, TypeMasses),
       F("Atoms, atomic", TypeAtoms) >>,
    << F("Atoms, atomic", TypeAtoms), F(NameMasses, TypeMasses), F(NameBoxX, TypeBox),
       F(NameTitle, TypeString) >>,
    << F(NameAtomsNbr, TypeInt), F(NameAtomTypes, TypeInt), F(NameMasses, TypeMasses),
       F("Atoms, full", TypeAtoms) >>,
    << F(NameMasses, TypeMasses), F(NamePairCoeffs, TypeCoeffs) >>,
    << F(NameAtomsNbr, TypeInt), F(NameBondTypes, TypeInt), F(NameBonds, TypeLinks) >> }

\* the struct types and the texts Decode is given
TypeFull ==
  << F(NameTitle, TypeString), F(NameAtomsNbr, TypeInt), F(NameAtomTypes, TypeInt),
     F(NameBoxX, TypeBox), F(NameBoxY, TypeBox), F(NameBoxZ, TypeBox),
     F(NameMasses, TypeMasses), F("Atoms, full", TypeAtoms) >>
TypeMassesOnly == << F(NameTitle, TypeString), F(NameMasses, TypeMasses) >>
TypeBonds == << F(NameBonds, TypeLinks), F(NameBoxX, TypeBox) >>
TypeWrong == << F(NameAtomTypes, TypeString), F(NameMasses, TypeMasses) >>
TypeTypes ==
  << F(NameTitle, TypeString), F(NameAtomTypes, TypeInt), F(NameMasses, TypeMasses),
     F(NamePairCoeffs, TypeCoeffs) >>

HeaderA ==
  "My title\n\n2 atoms\n1 atom types\n\n0.0 1.0 xlo xhi\n0.0 1.0 ylo yhi\n0.0 1.0 zlo zhi\n\n"
\* Scenario A of the documentation
DocA ==
  HeaderA \o "Masses\n\n1 1.0\n\nAtoms\n\n1 1 1 0.0 0.5 0.5 0.5\n2 1 1 0.0 0.5 0.5 0.6\n"
\* Scenario B: atom 2 has type 2
DocB ==
  HeaderA \o "Masses\n\n1 1.0\n\nAtoms\n\n1 1 1 0.0 0.5 0.5 0.5\n2 1 2 0.0 0.5 0.5 0.6\n"
DocNoAtoms == HeaderA \o "Masses\n\n1 1.0\n"
DocMasses == "t\n\n2 atom types\n\nMasses\n\n1 1.0\n2 0.5\n"
DocMassesTwice == "t\n\n2 atom types\n\nMasses\n\n1 1.0\n1 0.5\n"
DocMassesShort == "t\n2 atom types\nMasses\n\n1 1.0"
DocMassesBad == "t\n\n1 atom types\n\nMasses\n\n1 x\n"
DocBonds == "t\n\n2 atoms\n1 bonds\n1 bond types\n0 1 xlo xhi\n\nBonds\n\n1 1 1 2\n"
DocBondsRange == "t\n\n1 atoms\n1 bonds\n1 bond types\n1 0 xlo xhi\n\nBonds\n\n1 1 1 2\n"

\* header lines after the first table
DocHeaderLate == "t\n\n1 atom types\n\nMasses\n\n1 1.0\n\n2 atoms\n0 1 xlo xhi\n"
\* a header line and a table, each a second time
DocTwice ==
  "t\n1 atom types\n2 atom types\nMasses\n\n1 1.0\nMasses\n\n1 0.5\nPair Coeffs\n\n1 1.0 0.5\n"
\* a separator line that is not blank, and a table right after the last row
DocSepText ==
  "t\n2 atom types\nMasses\n# type mass\n1 1.0\n2 0.5\nPair Coeffs\n\n1 1.0 0.5\n2 10\n"
\* more rows than 'atom types' says
DocMassesMore == "t\n1 atom types\nMasses\n\n1 1.0\n2 0.5\n"
\* a type out of range in Masses, and a table after it
DocRangeThenMore == "t\n1 atom types\nMasses\n\n2 1.0\nPair Coeffs\n\n1 1.0 0.5\n"
\* malformed lines: a Header and a Box that are not numbers, a row of
\* Masses with one field, a row of Atoms whose molecule tag is not a number
DocHeaderBad == "t\nx atom types\nMasses\n\n1 1.0\n"
DocBoxBad == "t\n1 bonds\nx 1 xlo xhi\nBonds\n\n1 1 1 2\n"
DocMassesFew == "t\n2 atom types\nMasses\n\n1 1.0\n2\nPair Coeffs\n\n1 1.0 0.5\n"
DocAtomsBad == HeaderA \o "Atoms\n\n1 x 1 0.0 0.5 0.5 0.5\n2 1 1 0.0 0.5 0.5 0.6\n"
\* a line with the words of two Headers
DocCompete == "t\n2 atoms types\n"
\* a Masses section with no 'atom types' line, one whose 'atom types' line
\* comes after it, and an Atoms section followed by its 'atoms' line
\* texts whose first line reads as a section line or as a Counter line
DocTitleMasses == "Masses\n1 atom types\n\nMasses\n\n1 1.0\n"
DocTitleCounter == "1 atom types\n\nMasses\n\n1 1.0\n"
DocFirstBonds == "1 bonds\n"
DocNoCounter == "t\n\nMasses\n\n1 1.0\n2 0.5\n"
DocCounterLate == "t\nMasses\n\n1 1.0\n1 atom types\n"
DocAtomsNoCounter == "t\n\nAtoms\n\n1 1 1 0.0 0.5 0.5 0.5\n2 atoms\n"
\* the line of a table with text after the Name
DocMassesSuffix == "t\n1 atom types\n  Masses # per type\n\n1 1.0\nPair Coeffsx\n\n1 1.0 0.5\n"

DecInputs ==
  {[fields |-> TypeFull, text |-> d] :
     d \in {DocA, DocB, DocNoAtoms, DocHeaderLate, DocAtomsBad, DocCompete,
            DocAtomsNoCounter}}
    \cup {[fields |-> TypeMassesOnly, text |-> d] :
            d \in {"", DocMasses, DocMassesTwice, DocMassesShort, DocMassesBad, DocA,
                   DocMassesMore, DocNoCounter, DocCounterLate,
                   DocTitleMasses, DocTitleCounter}}
    \cup {[fields |-> TypeBonds, text |-> d] : d \in {DocBonds, DocBondsRange, DocBoxBad, DocFirstBonds}}
    \cup {[fields |-> TypeWrong, text |-> DocMasses]}
    \cup {[fields |-> TypeTypes, text |-> d] :
            d \in {DocTwice, DocSepText, DocRangeThenMore, DocHeaderBad,
                   DocMassesFew, DocMassesSuffix}}

(***************************************************************************)
(* The specification: Encode of a struct value, or Decode of a text; and   *)
(* the text a successful Encode wrote is given to Decode, with the same    *)
(* struct type.                                                            *)
(***************************************************************************)
Idle ==
  /\ out = "" /\ nFields = << >> /\ keys = << >> /\ heap = << >> /\ todo = {}
  /\ doc = << >> /\ pos = 0 /\ inHeader = TRUE /\ kHead = {} /\ kBody = {}
  /\ err = NoErr /\ last = NoCall

Init ==
  /\ pc = "start"
  /\ \/ /\ op = "Encode"
        /\ fields \in EncTypes
        /\ val \in StructVals(fields)
        /\ text = ""
     \/ /\ op = "Decode"
        /\ \E d \in DecInputs : fields = d.fields /\ text = d.text
        /\ val = ZeroStruct(fields)
  /\ dst = ZeroStruct(fields)
  /\ Idle

\* NewDecoder on the bytes Encode wrote
RoundTrip ==
  /\ op = "Encode" /\ pc = "enc_done" /\ err = NoErr
  /\ op' = "Decode"
  /\ pc' = "start"
  /\ text' = out
  /\ UNCHANGED << fields, val, dst, out, nFields, keys, heap, todo, doc, pos,
                  inHeader, kHead, kBody, err, last >>

Next ==
  \/ EncStart
  \/ EncAssign
  \/ EncCheck
  \/ EncWrite
  \/ RoundTrip
  \/ DecStart
  \/ DecLine
  \/ DecCheck
  \/ DecCopy

Spec == Init /\ [][Next]_vars

(***************************************************************************)
(* The Keys by themselves: a Registry made by MakeKeys, and then any       *)
(* sequence of calls of Set, SetKeysVal, Check, and Keyword followed by    *)
(* Decode, on its Keys.  last is the last call and what it returned.       *)
(***************************************************************************)
Call(call, key, res) == [call |-> call, key |-> key, res |-> res]

\* the Name lists the Registries are made of
KeyLists ==
  { << NameMasses >>, << NamePairCoeffs >>, << NameAtoms >>, << NameBonds >>,
    << NameAngles >>, << NameBoxX, NameTitle >> }

\* a value of another type than the Key's
WrongVal(o) == IF o.kind = KindTitle THEN IntVal(1) ELSE StrVal("x")

\* the lines given to the Keyword of a Box
KeyLines == { "1 0 xlo xhi", "0 1 xlo xhi", "0.5 0.5 xlo xhi", "x 1 xlo xhi", "2 atoms" }

InitKey ==
  /\ op = "Key" /\ pc = "key"
  /\ \E names \in KeyLists :
       /\ keys = MakeKeys(names, AtomStyleFull).k
       /\ heap = MakeKeys(names, AtomStyleFull).heap
  /\ fields = << >> /\ val = << >> /\ dst = << >> /\ text = ""
  /\ out = "" /\ nFields = << >> /\ todo = {}
  /\ doc = << >> /\ pos = 0 /\ inHeader = TRUE /\ kHead = {} /\ kBody = {}
  /\ err = NoErr /\ last = NoCall

\* k.Set(v)
KeySet ==
  /\ pc = "key"
  /\ \E n \in DOMAIN keys :
       \E v \in ValsOf(Get(heap[keys[n]]).t) \cup {WrongVal(heap[keys[n]])} :
         /\ heap' = [heap EXCEPT ![keys[n]] = Set(heap[keys[n]], v).o]
         /\ last' = Call("Set", n, Set(heap[keys[n]], v).err)
  /\ UNCHANGED << op, pc, fields, val, dst, text, out, nFields, keys, todo, doc,
                  pos, inHeader, kHead, kBody, err >>

\* k.SetKeysVal()
KeySetKeysVal ==
  /\ pc = "key"
  /\ \E n \in DOMAIN keys :
       /\ heap' = SetKeysVal(heap, keys[n]).h
       /\ last' = Call("SetKeysVal", n, SetKeysVal(heap, keys[n]).err)
  /\ UNCHANGED << op, pc, fields, val, dst, text, out, nFields, keys, todo, doc,
                  pos, inHeader, kHead, kBody, err >>

\* k.Check()
KeyCheck ==
  /\ pc = "key"
  /\ \E n \in DOMAIN keys :
       \E e \in Check(heap, keys[n]) : last' = Call("Check", n, e)
  /\ UNCHANGED << op, pc, fields, val, dst, text, out, nFields, keys, heap, todo,
                  doc, pos, inHeader, kHead, kBody, err >>

\* the heap with the object at address i replaced
Put(h, i, o) == [h EXCEPT ![i] = o]

\* k.Keyword(s) on a Box and, when it is true, k.Decode(s, r)
KeyDecode ==
  /\ pc = "key"
  /\ \E n \in {x \in DOMAIN keys : heap[keys[x]].kind = KindBox}, s \in KeyLines :
       IF Keyword(heap[keys[n]], s).ok
       THEN /\ heap' = Decode(Put(heap, keys[n], Keyword(heap[keys[n]], s).o),
                              keys[n], s, << >>, 0).h
            /\ last' = Call("Decode", n,
                            Decode(Put(heap, keys[n], Keyword(heap[keys[n]], s).o),
                                   keys[n], s, << >>, 0).err)
       ELSE /\ heap' = Put(heap, keys[n], Keyword(heap[keys[n]], s).o)
            /\ last' = Call("Keyword", n, Ok)
  /\ UNCHANGED << op, pc, fields, val, dst, text, out, nFields, keys, todo, doc,
                  pos, inHeader, kHead, kBody, err >>

NextKey ==
  \/ KeySet
  \/ KeySetKeysVal
  \/ KeyCheck
  \/ KeyDecode

SpecKey == InitKey /\ [][NextKey]_vars

(***************************************************************************)
(* MakeKeys by itself: a list of at most MaxNames Names, each a Name of    *)
(* ListNames or a Name that is not one, given to createNames as the tags   *)
(* of a struct type or to MakeKeys as it is; and then a value set in a     *)
(* Header of the Registry.                                                 *)
(***************************************************************************)
MaxNames == 2

\* a Name that ListNames does not hold
NameUnknown == "Velocities"

Requestable == ListNames \o << NameUnknown >>

RECURSIVE NameLists(_)
NameLists(n) ==
  IF n = 0 THEN {<< >>}
  ELSE NameLists(n - 1)
         \cup {Append(l, Requestable[j]) :
                 l \in {x \in NameLists(n - 1) : Len(x) = n - 1},
                 j \in 1..Len(Requestable)}

\* the Go type of the value of a Name
TypeOfName(n) == IF IsName(n) THEN Get(Construct(n, AtomStyleFull)).t ELSE TypeInt

InitMk ==
  /\ op = "MakeKeys" /\ pc = "start"
  /\ \E l \in NameLists(MaxNames) :
       fields = [j \in DOMAIN l |-> F(l[j], TypeOfName(l[j]))]
  /\ val = << >> /\ dst = << >> /\ text = ""
  /\ Idle

\* what the caller of a build is left with: the Registry, or the panic
Built(call, panic, ks, h) ==
  /\ keys' = IF panic THEN << >> ELSE ks
  /\ heap' = IF panic THEN << >> ELSE h
  /\ pc' = IF panic THEN "panic" ELSE "made"
  /\ last' = Call(call, "", IF panic THEN Panic ELSE Ok)

\* createNames, and in it MakeKeys
MkCreate ==
  /\ op = "MakeKeys" /\ pc = "start"
  /\ nFields' = createNames(fields).namesFields
  /\ Built("createNames", createNames(fields).panic, createNames(fields).keys,
           createNames(fields).heap)
  /\ UNCHANGED << op, fields, val, dst, text, out, todo, doc, pos, inHeader,
                  kHead, kBody, err >>

\* the Names of the tags, in the order of the fields
Requested == [j \in DOMAIN fields |-> fields[j].tag]

\* MakeKeys called with the list of Names as it is
MkMake ==
  /\ op = "MakeKeys" /\ pc = "start"
  /\ Built("MakeKeys", MakeKeys(Requested, AtomStyleFull).panic,
           MakeKeys(Requested, AtomStyleFull).k, MakeKeys(Requested, AtomStyleFull).heap)
  /\ UNCHANGED << op, fields, val, dst, text, out, nFields, todo, doc, pos,
                  inHeader, kHead, kBody, err >>

\* Set on a Header of the Registry
MkSet ==
  /\ op = "MakeKeys" /\ pc = "made"
  /\ \E n \in DOMAIN keys, v \in IntVals :
       /\ heap[keys[n]].kind = KindHeader
       /\ heap' = Put(heap, keys[n], Set(heap[keys[n]], v).o)
       /\ last' = Call("Set", n, Set(heap[keys[n]], v).err)
  /\ pc' = "set"
  /\ UNCHANGED << op, fields, val, dst, text, out, nFields, keys, todo, doc, pos,
                  inHeader, kHead, kBody, err >>

NextMk ==
  \/ MkCreate
  \/ MkMake
  \/ MkSet

SpecMk == InitMk /\ [][NextMk]_vars

(***************************************************************************)
(* The rows of the tables by themselves: a table Key of a Registry whose   *)
(* row-count Header holds 1, and Decode of one data row, once as it is and *)
(* once followed by a comment.  text is the row, doc the lines given to    *)
(* Decode (the line of the Name, the separator line and the row with its   *)
(* comment), val what Decode made of the row as it is.                     *)
(***************************************************************************)
\* well-formed data rows, each with the table and the atom style it is of
RowInputs ==
  {[name |-> NameMasses, as |-> AtomStyleFull, row |-> r] : r \in {"1 1.0", "2 0.5"}}
    \cup {[name |-> n, as |-> AtomStyleFull, row |-> r] :
            n \in {NamePairCoeffs, NameBondCoeffs, NameAngleCoeffs, NameDihedralCoeffs},
            r \in {"1 1.0 0.5", "2 10"}}
    \cup {[name |-> NameAtoms, as |-> AtomStyleFull, row |-> r] :
            r \in {"1 1 1 0.0 0.5 0.5 0.5", "2 1 1 0.0 0.5 0.5 0.6 0 -1 1"}}
    \cup {[name |-> NameAtoms, as |-> AtomStyleAtomic, row |-> r] :
            r \in {"1 1 0.5 0.5 0.5", "2 1 0.5 0.5 0.6 0 -1 1"}}
    \cup {[name |-> NameBonds, as |-> AtomStyleFull, row |-> r] : r \in {"1 1 1 2", "2 1 2 1"}}
    \cup {[name |-> NameAngles, as |-> AtomStyleFull, row |-> r] : r \in {"1 1 1 2 1"}}
    \cup {[name |-> NameDihedrals, as |-> AtomStyleFull, row |-> r] : r \in {"1 1 1 2 1 2"}}

\* trailing comments: with and without a space before and after the '#'
Comments == {" # mass", " #mass", "# mass", "#mass", "#", " # 1 2"}

\* the heap with the row-count Header of the table named n holding c
Counted(m, n, c) == Put(m.heap, CountKey(m.heap[m.k[n]]), HeaderSet(m.heap[CountKey(m.heap[m.k[n]])], IntVal(c)).o)

InitRow ==
  /\ op = "Row" /\ pc = "start"
  /\ \E i \in RowInputs, c \in Comments :
       /\ text = i.row
       /\ doc = << i.name, "", i.row \o c >>
       /\ keys = MakeKeys(<< i.name >>, i.as).k
       /\ heap = Counted(MakeKeys(<< i.name >>, i.as), i.name, 1)
       /\ kBody = {i.name}
  /\ fields = << >> /\ val = << >> /\ dst = << >>
  /\ out = "" /\ nFields = << >> /\ todo = {}
  /\ pos = 1 /\ inHeader = FALSE /\ kHead = {}
  /\ err = NoErr /\ last = NoCall

\* what is kept of a call of Decode on the table: the error and the map
RowResult(r, k) == [err |-> r.err, tab |-> r.h[k].tab]

\* k.Decode on the row as it is
RowPlain ==
  /\ op = "Row" /\ pc = "start"
  /\ \E n \in kBody :
       val' = RowResult(Decode(heap, keys[n], doc[1], << doc[1], doc[2], text >>, 1), keys[n])
  /\ pc' = "plain"
  /\ UNCHANGED << op, fields, dst, text, out, nFields, keys, heap, todo, doc, pos,
                  inHeader, kHead, kBody, err, last >>

\* k.Decode on the row followed by the comment
RowComment ==
  /\ op = "Row" /\ pc = "plain"
  /\ \E n \in kBody :
       /\ heap' = Decode(heap, keys[n], doc[1], doc, 1).h
       /\ pos' = Decode(heap, keys[n], doc[1], doc, 1).pos
       /\ last' = Call("Decode", n, Decode(heap, keys[n], doc[1], doc, 1).err)
  /\ pc' = "done"
  /\ UNCHANGED << op, fields, val, dst, text, out, nFields, keys, todo, doc,
                  inHeader, kHead, kBody, err >>

NextRow ==
  \/ RowPlain
  \/ RowComment

SpecRow == InitRow /\ [][NextRow]_vars

(***************************************************************************)
(* SetKeys by itself: Keys as their constructors return them, one of them  *)
(* given to SetKeys with a list of at most MaxDeps of the others, and then *)
(* its SetKeysVal.  fields holds the Names of the Keys passed, err the     *)
(* result of SetKeys, last the result of SetKeysVal.                       *)
(***************************************************************************)
MaxDeps == 3

\* the Keys constructed, one of each variant and the Counters they name
WireNames ==
  << NameMasses, NamePairCoeffs, NameAtoms, NameBonds, NameTitle, NameAtomsNbr,
     NameAtomTypes, NameBondsNbr, NameBondTypes, NameBoxX >>

\* the Keys that are passed to SetKeys
Passable ==
  {NameAtomsNbr, NameAtomTypes, NameBondsNbr, NameBondTypes, NameBoxX, NameTitle}

\* the lists of at most n Names of Passable
PassLists(n) == UNION {[1..k -> Passable] : k \in 0..n}

InitWire ==
  /\ op = "SetKeys" /\ pc = "start"
  /\ heap = [i \in 1..Len(WireNames) |-> Construct(WireNames[i], AtomStyleFull)]
  /\ keys = [n \in {WireNames[i] : i \in 1..Len(WireNames)} |->
               CHOOSE i \in 1..Len(WireNames) : WireNames[i] = n]
  /\ fields = << >> /\ val = << >> /\ dst = << >> /\ text = ""
  /\ out = "" /\ nFields = << >> /\ todo = {}
  /\ doc = << >> /\ pos = 0 /\ inHeader = TRUE /\ kHead = {} /\ kBody = {}
  /\ err = NoErr /\ last = NoCall

\* k.SetKeys(ks...)
WireSetKeys ==
  /\ op = "SetKeys" /\ pc = "start"
  /\ \E n \in DOMAIN keys, l \in PassLists(MaxDeps) :
       /\ fields' = [j \in DOMAIN l |-> F(l[j], TypeOfName(l[j]))]
       /\ heap' = SetKeys(heap, keys[n], [j \in DOMAIN l |-> keys[l[j]]]).h
       /\ err' = Err("SetKeys", n, SetKeys(heap, keys[n], [j \in DOMAIN l |-> keys[l[j]]]).err)
  /\ pc' = "wired"
  /\ UNCHANGED << op, val, dst, text, out, nFields, keys, todo, doc, pos,
                  inHeader, kHead, kBody, last >>

\* k.SetKeysVal() on the Key that was given to SetKeys
WireSetKeysVal ==
  /\ op = "SetKeys" /\ pc = "wired"
  /\ heap' = SetKeysVal(heap, keys[err.key]).h
  /\ last' = Call("SetKeysVal", err.key, SetKeysVal(heap, keys[err.key]).err)
  /\ pc' = "val"
  /\ UNCHANGED << op, fields, val, dst, text, out, nFields, keys, todo, doc, pos,
                  inHeader, kHead, kBody, err >>

NextWire ==
  \/ WireSetKeys
  \/ WireSetKeysVal

SpecWire == InitWire /\ [][NextWire]_vars

(***************************************************************************)
(* Properties of the rows.                                                 *)
(***************************************************************************)
\* C12: for every table (Masses, Coeffs, Atoms, Bonds, Angles, Dihedrals),
\* Decode of a data row followed by a '#' comment, with or without a space
\* before the '#', ends as Decode of the row without the comment does, and
\* with the same record
C12_CommentStripped ==
  (op = "Row" /\ pc = "done") =>
    /\ last.res = val.err
    /\ heap[keys[doc[1]]].tab = val.tab

\* Decode has made the record 1.0 of the Masses row "1 1.0" and has failed
\* to parse the same row followed by "#mass"
C12_Witness ==
  /\ op = "Row" /\ pc = "done"
  /\ doc = << NameMasses, "", "1 1.0#mass" >>
  /\ val = [err |-> Ok, tab |-> MapOf(1 :> 10)]
  /\ last.res = ErrParse
  /\ heap[keys[NameMasses]].tab = MakeMap

(***************************************************************************)
(* Properties of Encode followed by Decode, and of Decode.                 *)
(***************************************************************************)
\* two values are equal; a nil map and an empty map are the same mapping
SameValue(a, b) == a.t = b.t /\ a.i = b.i /\ a.s = b.s /\ a.lo = b.lo /\ a.hi = b.hi
                     /\ a.tab.m = b.tab.m

\* Decode has returned from the text a successful Encode wrote
RoundTripDone == op = "Decode" /\ out # "" /\ text = out /\ pc = "dec_done"

\* C1: for every struct value that passes validation, Encode followed by
\* Decode of the text it wrote, with the same struct type, ends without
\* error and gives every requested Name a value equal to the original.
C1_RoundTrip ==
  RoundTripDone =>
    /\ err = NoErr
    /\ \A n \in DOMAIN nFields : SameValue(dst[nFields[n]], val[nFields[n]])

(***************************************************************************)
(* Properties of the loop of Decode over the lines.                        *)
(***************************************************************************)
\* Decode is in its loop, with a line left to read
InLoop == op = "Decode" /\ pc = "dec_loop" /\ pos < Len(doc)

\* the Key named n answers true to Keyword on the line l
Matches(n, l) == Keyword(heap[keys[n]], l).ok

\* the Keys of the Registry that are Headers or Boxes
HeaderNames == {n \in DOMAIN keys : IsHeader(heap[keys[n]])}

\* C13: once a table Key has matched a line the Decoder is in the body phase
\* for good: from then on no Header or Box is tested or decoded (none
\* changes, not even in the tokens Keyword caches, and none leaves the
\* header pool), whatever the later lines are
C13_BodyIrreversible ==
  [][(op = "Decode" /\ pc = "dec_loop") =>
       /\ (kBody' # kBody) => ~inHeader'
       /\ ~inHeader =>
            /\ ~inHeader'
            /\ kHead' = kHead
            /\ \A n \in HeaderNames : heap'[keys[n]] = heap[keys[n]]]_vars

\* Decode has ended without error on a text that has "2 atoms" and
\* "0 1 xlo xhi" after the Masses table: 'atoms' is 0 and xlo xhi (0, 0),
\* both still in the header pool
C13_Witness ==
  /\ op = "Decode" /\ pc = "dec_done" /\ err = NoErr
  /\ text = DocHeaderLate
  /\ ~inHeader
  /\ {NameAtomsNbr, NameBoxX} \subseteq kHead
  /\ dst[nFields[NameAtomsNbr]] = IntVal(0)
  /\ dst[nFields[NameBoxX]] = BoxVal(0, 0)
  /\ dst[nFields[NameMasses]] = MapVal(TypeMasses, MapOf(1 :> 10))

\* the Keys still in a pool
Pool == kHead \cup kBody

\* C14: a Key is decoded at most once: the pools only shrink, by the Key
\* that has matched the line and been decoded; a Key that has left its pool
\* is never touched again, whatever the later lines are; and while Decode
\* goes on, a Key still in its pool has the value it had
C14_DecodedOnce ==
  [][InLoop =>
       /\ kHead' \subseteq kHead /\ kBody' \subseteq kBody
       /\ Cardinality(Pool \ (kHead' \cup kBody')) <= 1
       /\ \A n \in Pool \ (kHead' \cup kBody') : Matches(n, doc[pos + 1])
       /\ (/\ pc' = "dec_loop"
           /\ \/ inHeader /\ \E n \in kHead : Matches(n, doc[pos + 1])
              \/ \E n \in kBody : Matches(n, doc[pos + 1]))
            => kHead' \cup kBody' # Pool
       /\ \A n \in (DOMAIN keys) \ Pool : heap'[keys[n]] = heap[keys[n]]
       /\ pc' = "dec_loop" =>
            \A n \in kHead' \cup kBody' : Get(heap'[keys[n]]) = Get(heap[keys[n]])]_vars

\* Decode has ended without error on a text with the lines "1 atom types"
\* and "2 atom types" and with two Masses tables: the first of each has won
C14_Witness ==
  /\ op = "Decode" /\ pc = "dec_done" /\ err = NoErr
  /\ text = DocTwice
  /\ dst[nFields[NameAtomTypes]] = IntVal(1)
  /\ dst[nFields[NameMasses]] = MapVal(TypeMasses, MapOf(1 :> 10))
  /\ kHead = {} /\ kBody = {NameTitle}

\* C16: during Decode, Check is run on no Key before the stream is
\* exhausted: an error of Check is returned only once every line has been
\* read, and until then the loop goes on whatever Check would say
C16_CheckAtEnd ==
  /\ (op = "Decode" /\ err.stage = "Check") => (pc = "dec_done" /\ pos >= Len(doc))
  /\ InLoop => err = NoErr

\* Decode has read a Masses table with a type out of range, has gone on to
\* decode the Pair Coeffs table after it, and has returned the error of
\* Check on Masses at the end of the stream
C16_Witness ==
  /\ op = "Decode" /\ pc = "dec_done" /\ pos = Len(doc)
  /\ text = DocRangeThenMore
  /\ err = Err("Check", NameMasses, ErrRange)
  /\ heap[keys[NamePairCoeffs]].tab = MapOf(1 :> << 10, 5 >>)

\* in this turn of the loop the table named n has matched the line and its
\* Decode has been called: it has left the body pool, or Decode has ended
\* with its Name
Started(n) ==
  /\ InLoop /\ n \in kBody /\ IsTable(heap[keys[n]])
  /\ \/ kBody' = kBody \ {n}
     \/ pc' = "dec_done" /\ err'.key = n /\ err'.stage \in {"Decode", "panic"}

\* the Decode of this turn has met a row it rejects as malformed
RowRejected == pc' = "dec_done" /\ err'.why \in {ErrFields, ErrParse}

\* the value, at the time of the match, of the row-count Counter of table n
RowCount(n) == heap[CountKey(heap[keys[n]])].v

\* the lines read once the line at pos + 1 has matched and a separator line
\* and N rows have been taken, as far as there are lines
AfterRows(N) ==
  IF pos + 2 + (IF N > 0 THEN N ELSE 0) <= Len(doc)
  THEN pos + 2 + (IF N > 0 THEN N ELSE 0)
  ELSE Len(doc)

\* the tables of T take their lines as said: one separator line, then one
\* line for each row their Counter announces, no more and no less
TakesRows(T) ==
  \A n \in T : (Started(n) /\ ~RowRejected) => pos' = AfterRows(RowCount(n))

\* C15: the Decode of a table takes from the stream the separator line and
\* then min(N, lines left) rows, N being the value of its row-count
\* Counter, so that the loop of Decode sees next the line after the N-th
\* row; this for every table of the Registry
C15_Consumption == [][TakesRows(DOMAIN keys)]_vars

\* Decode of Scenario A has matched "Atoms" at line 14 with 'atoms' equal to
\* 2 and has ended in the panic of the row decoder with 16 lines read, the
\* separator line and the first row, of the 17 it should have read
C15_Witness ==
  /\ op = "Decode" /\ pc = "dec_done" /\ text = DocA /\ fields = TypeFull
  /\ err = Err("panic", NameAtoms, Panic)
  /\ RowCount(NameAtoms) = 2
  /\ doc[14] = "Atoms" /\ pos = 16 /\ Len(doc) = 17
  /\ NameAtoms \in kBody

\* the same property for the tables other than Atoms
C15_OtherTables == [][TakesRows((DOMAIN keys) \ {NameAtoms})]_vars

\* the format of a row of the table o, as the documentation of the data
\* file gives it: the least number of fields, and what the j-th field of a
\* row of len fields must be
MinFields(o) ==
  CASE o.kind = KindLinks -> o.links
    [] o.kind = KindAtoms -> (IF o.atomStyle = AtomStyleAtomic THEN 5 ELSE 7)
    [] OTHER -> 2

FieldKind(o, j, len) ==
  CASE o.kind = KindMasses -> (IF j = 1 THEN "int" ELSE IF j = 2 THEN "float" ELSE "any")
    [] o.kind = KindCoeffs -> (IF j = 1 THEN "int" ELSE "float")
    [] o.kind = KindLinks -> (IF j <= o.links THEN "int" ELSE "any")
    [] o.kind = KindAtoms /\ o.atomStyle = AtomStyleAtomic ->
         (IF j <= 2 THEN "int" ELSE IF j <= 5 THEN "float"
          ELSE IF len = 8 THEN "int" ELSE "any")
    [] OTHER ->
         (IF j <= 3 THEN "int" ELSE IF j <= 7 THEN "float"
          ELSE IF len = 10 THEN "int" ELSE "any")

\* the token s is not a number of the kind asked
NotNumber(kind, s) ==
  \/ kind = "int" /\ ~Atoi(s).ok
  \/ kind = "float" /\ ~ParseFloat(s).ok

\* the line l is a malformed row of the table o: too few tokens, or a token
\* that is not the number it must be
FieldsMalformed(o, f) ==
  \/ Len(f) < MinFields(o)
  \/ \E j \in 1..Len(f) : NotNumber(FieldKind(o, j, Len(f)), f[j])

Malformed(o, l) == FieldsMalformed(o, Fields(delComments(l)))

\* the value of the header line s is not the number, or the two numbers,
\* the Header or Box o asks for
ValueMalformed(o, f) ==
  IF o.kind = KindBox
  THEN Len(f) < 2 \/ NotNumber("float", f[1]) \/ NotNumber("float", f[2])
  ELSE Len(f) < 1 \/ NotNumber("int", f[1])

BadValue(o, s) == ValueMalformed(o, Fields(s))

\* the Headers and Boxes that this turn of the loop tests and that match
\* its line
HeadersMatching ==
  IF InLoop /\ inHeader THEN {n \in kHead : Matches(n, doc[pos + 1])} ELSE {}

\* the table named n is the one that matches the line of this turn, no
\* Header taking the line before it
TableTurn(n) ==
  /\ InLoop /\ HeadersMatching = {}
  /\ n \in kBody /\ IsTable(heap[keys[n]])
  /\ \A m \in kBody : Matches(m, doc[pos + 1]) <=> m = n

\* the rows the table named n is to read in this turn that are malformed
BadRows(n) ==
  {i \in (pos + 3)..AfterRows(RowCount(n)) : Malformed(heap[keys[n]], doc[i])}

\* the least element of a non-empty set of numbers
Least(S) == CHOOSE i \in S : \A j \in S : i <= j

\* Decode ends in this turn with an error of Decode that names the Key n,
\* the line numbered at being the last one read, and no Key leaves its pool
FailsFast(n, at) ==
  /\ pc' = "dec_done"
  /\ err'.stage = "Decode" /\ err'.key = n /\ err'.why \in {ErrFields, ErrParse}
  /\ pos' = at
  /\ kHead' = kHead /\ kBody' = kBody

\* Decode fails fast on the malformed lines of the Keys of T
FailFast(T) ==
  /\ \A n \in T :
       (TableTurn(n) /\ BadRows(n) # {}) => FailsFast(n, Least(BadRows(n)))
  /\ (/\ HeadersMatching # {}
      /\ HeadersMatching \subseteq T
      /\ \A n \in HeadersMatching : BadValue(heap[keys[n]], doc[pos + 1]))
       => \E n \in HeadersMatching : FailsFast(n, pos + 1)

\* C17: Decode fails fast on a malformed line: a row of a table with too
\* few tokens or a token that is not a number, or a matched header line
\* whose value is not a number, makes Decode return at once an error that
\* names the Key; the line is the last one read, Check is not run and the
\* Key stays in its pool
C17_FailFast == [][FailFast(DOMAIN keys)]_vars

\* Decode has matched "Atoms" and read the row "1 x 1 0.0 0.5 0.5 0.5",
\* whose molecule tag is not a number: it has ended in a panic, not in an
\* error of Decode
C17_Witness ==
  /\ op = "Decode" /\ pc = "dec_done" /\ text = DocAtomsBad
  /\ doc[pos] = "1 x 1 0.0 0.5 0.5 0.5"
  /\ Malformed(heap[keys[NameAtoms]], doc[pos])
  /\ err = Err("panic", NameAtoms, Panic)

\* the same property for the Keys other than Atoms
C17_OtherKeys == [][FailFast((DOMAIN keys) \ {NameAtoms})]_vars

\* the line l is white space followed by the text p and then by anything
Begins(l, p) ==
  \E k \in 0..Len(l) :
    /\ \A j \in 1..k : IsSpace(At(l, j))
    /\ k + Len(p) <= Len(l)
    /\ SubSeq(l, k + 1, k + Len(p)) = p

\* the tables of the body pool whose Name the line of this turn begins with
Beginning == {n \in kBody : IsTable(heap[keys[n]]) /\ Begins(doc[pos + 1], n)}

\* C19, as stated: a table starts its section only on a line whose text is
\* exactly its Name
C19_ExactName ==
  [][\A n \in DOMAIN keys : Started(n) => doc[pos + 1] = n]_vars

\* C19, amended: a table starts its section on a line if and only if the
\* line, once its leading white space is trimmed, begins with its Name,
\* whatever follows the Name (no Header having taken the line first)
C19_PrefixMatch ==
  [][(InLoop /\ HeadersMatching = {}) =>
       /\ \A n \in DOMAIN keys : Started(n) => n \in Beginning
       /\ Beginning # {} => \E n \in Beginning : Started(n)]_vars

\* Decode has ended without error on a text whose sections begin with the
\* lines "  Masses # per type" and "Pair Coeffsx": both tables are decoded
C19_Witness ==
  /\ op = "Decode" /\ pc = "dec_done" /\ err = NoErr /\ text = DocMassesSuffix
  /\ doc[3] = "  Masses # per type" /\ doc[6] = "Pair Coeffsx"
  /\ heap[keys[NameMasses]].tab = MapOf(1 :> 10)
  /\ heap[keys[NamePairCoeffs]].tab = MapOf(1 :> << 10, 5 >>)
  /\ kBody = {NameTitle}

\* SetKeys has been called: on the Key named err.key, with the Keys named
\* in Requested
Wired == op = "SetKeys" /\ pc \in {"wired", "val"}

\* the Names of the Counters
CounterNames ==
  {NameAtomsNbr, NameBondsNbr, NameAnglesNbr, NameDihedralsNbr,
   NameAtomTypes, NameBondTypes, NameAngleTypes, NameDihedralTypes}

\* the list l is made of exactly the Names of the set S, each once
ExactlyThe(l, S) ==
  Len(l) = Cardinality(S) /\ {l[j] : j \in DOMAIN l} = S

\* the Keys passed are the dependencies the table n is said to require:
\* one Counter for Masses and Coeffs, its two Counters for Atoms, its three
\* Counters for Links
RightKeys(n, l) ==
  CASE n \in {NameMasses, NamePairCoeffs} -> Len(l) = 1 /\ l[1] \in CounterNames
    [] n = NameAtoms -> ExactlyThe(l, {NameAtomsNbr, NameAtomTypes})
    [] n = NameBonds -> ExactlyThe(l, {NameAtomsNbr, NameBondsNbr, NameBondTypes})
    [] OTHER -> Len(l) = 0

\* C20, as stated: SetKeys fails whenever the Keys passed are not the
\* dependencies the Key requires, in variant or in number; Title, Counter
\* and Box succeed when given none and fail when given any
C20_WiringStrict ==
  Wired =>
    /\ ~RightKeys(err.key, Requested) => err.why # Ok
    /\ (err.key \in {NameTitle, NameBoxX} \cup CounterNames /\ Len(Requested) = 0)
         => err.why = Ok

\* what SetKeys accepts: Masses one Key, the Counter 'atom types'; Coeffs
\* one Key, any Counter; Atoms any number of Keys, each the Counter 'atoms'
\* or 'atom types'; Links any number of Keys, each a Counter; the others
\* nothing at all
Accepted(n, l) ==
  CASE n = NameMasses -> Len(l) = 1 /\ l[1] = NameAtomTypes
    [] n = NamePairCoeffs -> Len(l) = 1 /\ l[1] \in CounterNames
    [] n = NameAtoms -> \A j \in DOMAIN l : l[j] \in {NameAtomsNbr, NameAtomTypes}
    [] n = NameBonds -> \A j \in DOMAIN l : l[j] \in CounterNames
    [] OTHER -> FALSE

\* C20, amended: SetKeys succeeds exactly on the lists of Accepted; Title,
\* Counter and Box fail with ErrUnsupported whatever they are given; and a
\* table whose row-count Counter was not among the Keys passed fails only
\* later, in SetKeysVal
C20_Wiring ==
  /\ Wired =>
       /\ err.why = Ok <=> Accepted(err.key, Requested)
       /\ err.key \in {NameTitle, NameBoxX} \cup CounterNames
            => err.why = ErrUnsupported
  /\ (op = "SetKeys" /\ pc = "val" /\ err.why = Ok) =>
       (last.res = ErrNilKey
          <=> CASE err.key = NameAtoms ->
                     \A j \in DOMAIN Requested : Requested[j] # NameAtomsNbr
                [] err.key = NameBonds ->
                     \A j \in DOMAIN Requested :
                       Requested[j] \notin {NameBondsNbr, NameAnglesNbr, NameDihedralsNbr}
                [] OTHER -> FALSE)

\* SetKeys on Atoms with no Key at all has returned no error, and the
\* SetKeysVal that followed has failed on the missing Counter
C20_Witness ==
  /\ op = "SetKeys" /\ pc = "val"
  /\ Requested = << >>
  /\ err = Err("SetKeys", NameAtoms, Ok)
  /\ last = Call("SetKeysVal", NameAtoms, ErrNilKey)

\* SetKeys on the Title with no Key has returned ErrUnsupported
C20_TitleUnsupported ==
  /\ op = "SetKeys" /\ pc = "wired"
  /\ Requested = << >>
  /\ err = Err("SetKeys", NameTitle, ErrUnsupported)

\* the Names of the vocabulary whose Key is a Header or a Box
HeaderVocabulary ==
  {ListNames[i] : i \in {j \in 1..Len(ListNames) :
                           IsHeader(Construct(ListNames[j], AtomStyleFull))}}

\* the Headers and Boxes of the vocabulary whose Keyword is true on line l
Competing(l) ==
  {n \in HeaderVocabulary : Keyword(Construct(n, AtomStyleFull), l).ok}

\* C18: the header patterns never compete: on every line of the text at
\* most one Header or Box of the vocabulary answers true to Keyword
C18_NoCompetition ==
  \A i \in DOMAIN doc : Cardinality(Competing(doc[i])) <= 1

\* Decode has read the line "2 atoms types" with 'atoms' and 'atom types'
\* both in the header pool and both matching it: here 'atom types' has
\* taken the line and 'atoms' is still 0
C18_Witness ==
  /\ op = "Decode" /\ pc = "dec_loop" /\ text = DocCompete /\ pos = 2
  /\ Competing(doc[2]) = {NameAtomsNbr, NameAtomTypes}
  /\ kHead \cap Competing(doc[2]) = {NameAtomsNbr}
  /\ heap[keys[NameAtomTypes]].v = 2
  /\ heap[keys[NameAtomsNbr]].v = 0

\* the other order of the same turn: 'atoms' has taken the line
C18_OtherOrder ==
  /\ op = "Decode" /\ pc = "dec_loop" /\ text = DocCompete /\ pos = 2
  /\ kHead \cap Competing(doc[2]) = {NameAtomTypes}
  /\ heap[keys[NameAtomsNbr]].v = 2
  /\ heap[keys[NameAtomTypes]].v = 0

\* C26: when Decode returns an error met while it reads the lines, decodes
\* a Key or runs Check, no field of the destination has been modified; nor
\* is one modified before the loop over the lines and Check are over
C26_NoPartialCopy ==
  (/\ op = "Decode"
   /\ \/ pc \in {"start", "dec_loop", "dec_copy"}
      \/ pc = "dec_done" /\ err.stage \in {"Set", "Decode", "Check", "panic"})
    => dst = ZeroStruct(fields)

\* Decode has returned the range error of Check on Masses: the Key holds
\* the decoded table and the field of the destination is still nil
C26_Witness ==
  /\ op = "Decode" /\ pc = "dec_done" /\ text = DocRangeThenMore
  /\ err = Err("Check", NameMasses, ErrRange)
  /\ heap[keys[NameMasses]].tab = MapOf(2 :> 10)
  /\ dst[nFields[NameMasses]] = MapVal(TypeMasses, NilMap)
  /\ dst = ZeroStruct(fields)

\* Decode has returned the error of a row of Masses that has too few
\* fields, the destination being untouched
C26_DecodeError ==
  /\ op = "Decode" /\ pc = "dec_done" /\ text = DocMassesFew
  /\ err = Err("Decode", NameMasses, ErrFields)
  /\ heap[keys[NameAtomTypes]].v = 2
  /\ dst = ZeroStruct(fields)

\* Encode has succeeded on a struct that supplies a non-empty Atoms table,
\* and Decode of the text it wrote has ended in the panic of the row decoder
C1_Witness ==
  /\ RoundTripDone
  /\ \E j \in DOMAIN fields : fields[j].type = TypeAtoms /\ MapLen(val[j].tab) > 0
  /\ err = Err("panic", NameAtoms, Panic)

\* the Atoms mapping of Scenario A: one record for each of its two rows
AtomsA ==
  MapOf((1 :> Atom(1, 1, 0, 5, 5, 5, FALSE, 0, 0, 0))
          @@ (2 :> Atom(1, 1, 0, 5, 5, 6, FALSE, 0, 0, 0)))

\* C2: Decode of the document of Scenario A (2 atoms, 1 atom type, two rows
\* of 7 tokens with the ids 1 and 2), atom style full, ends without error
\* with the Atoms mapping holding one record for each row
C2_ScenarioA ==
  (op = "Decode" /\ fields = TypeFull /\ text = DocA /\ pc = "dec_done") =>
    /\ err = NoErr
    /\ dst[nFields[NameAtoms]] = MapVal(TypeAtoms, AtomsA)

\* Decode of the document of Scenario A has ended in the panic of the row
\* decoder, on the first row of Atoms, with nothing copied to the struct
C2_Witness ==
  /\ op = "Decode" /\ fields = TypeFull /\ text = DocA /\ pc = "dec_done"
  /\ err = Err("panic", NameAtoms, Panic)
  /\ pos = 16
  /\ dst = ZeroStruct(fields)

(***************************************************************************)
(* Properties of the Keys.                                                 *)
(***************************************************************************)
\* the last call was Check on the Key named n
Checked(n) == last.call = "Check" /\ last.key = n

\* the value of the Header named n of the Registry
Counter(n) == heap[keys[n]].v

\* the three conditions on the records of an Atoms table: every id is in
\* [1, atoms], every type is in [1, atom types], and N is the same on all
AtomsRecordsOk(t) ==
  /\ \A id \in DOMAIN t : id >= 1 /\ id <= Counter(NameAtomsNbr)
  /\ \A id \in DOMAIN t : t[id].AtomType >= 1 /\ t[id].AtomType <= Counter(NameAtomTypes)
  /\ \A a, b \in DOMAIN t : t[a].N = t[b].N

\* C3, as stated: Atoms.Check succeeds if and only if the three conditions
\* hold on the records
C3_ThreeConditions ==
  Checked(NameAtoms) =>
    (last.res = Ok <=> AtomsRecordsOk(heap[keys[NameAtoms]].tab.m))

\* C3, amended: Atoms.Check succeeds if and only if the table has as many
\* records as the 'atoms' Counter says and the three conditions hold
C3_AtomsCheck ==
  Checked(NameAtoms) =>
    (last.res = Ok <=>
       /\ MapLen(heap[keys[NameAtoms]].tab) = Counter(NameAtomsNbr)
       /\ AtomsRecordsOk(heap[keys[NameAtoms]].tab.m))

\* Check has rejected a table of two records, with ids and types in range,
\* of which one has N set and the other has not
C3_Witness ==
  /\ Checked(NameAtoms)
  /\ last.res = ErrNFlag
  /\ MapLen(heap[keys[NameAtoms]].tab) = 2
  /\ Counter(NameAtomsNbr) = 2

\* the row-count Counter of a table
RowCounter(n) ==
  CASE n = NameMasses -> NameAtomTypes
    [] n = NamePairCoeffs -> NameAtomTypes
    [] n = NameBondCoeffs -> NameBondTypes
    [] n = NameAngleCoeffs -> NameAngleTypes
    [] n = NameDihedralCoeffs -> NameDihedralTypes
    [] n = NameAtoms -> NameAtomsNbr
    [] n = NameBonds -> NameBondsNbr
    [] n = NameAngles -> NameAnglesNbr
    [] n = NameDihedrals -> NameDihedralsNbr

TableNames ==
  { NameMasses, NamePairCoeffs, NameBondCoeffs, NameAngleCoeffs, NameDihedralCoeffs,
    NameAtoms, NameBonds, NameAngles, NameDihedrals }

\* C5: Check on a table whose number of records K differs from the value C
\* of its row-count Counter fails with the count-mismatch error
C5_CountMismatch ==
  (/\ last.call = "Check"
   /\ last.key \in TableNames
   /\ MapLen(heap[keys[last.key]].tab) # Counter(RowCounter(last.key)))
    => last.res = ErrCount

\* Check has rejected Masses with 2 records while 'atom types' is 1
C5_Witness ==
  /\ Checked(NameMasses)
  /\ MapLen(heap[keys[NameMasses]].tab) = 2
  /\ Counter(NameAtomTypes) = 1
  /\ last.res = ErrCount

C21_PropagationFrame ==
  [][(op = "Key" /\ last'.call = "SetKeysVal") =>
       IF last'.key \in TableNames
       THEN /\ last'.res = Ok
            /\ heap'[keys[RowCounter(last'.key)]] =
                 [heap[keys[RowCounter(last'.key)]] EXCEPT
                    !.v = MapLen(heap[keys[last'.key]].tab)]
            /\ \A i \in DOMAIN heap :
                 i # keys[RowCounter(last'.key)] => heap'[i] = heap[i]
       ELSE last'.res = ErrUnsupported /\ heap' = heap]_vars

\* SetKeysVal on Bonds, which holds 1 record, has set 'bonds' to 1 while
\* 'atoms' and 'bond types' keep the 2 they were set to
C21_Witness ==
  /\ op = "Key" /\ last = Call("SetKeysVal", NameBonds, Ok)
  /\ MapLen(heap[keys[NameBonds]].tab) = 1
  /\ Counter(NameBondsNbr) = 1
  /\ Counter(NameAtomsNbr) = 2
  /\ Counter(NameBondTypes) = 2

\* the number of atom identifiers of a record of a Links table
LinkArity(n) ==
  CASE n = NameBonds -> 2
    [] n = NameAngles -> 3
    [] n = NameDihedrals -> 4

\* C22: every record of a Bonds, Angles or Dihedrals table that has passed
\* Check holds exactly 2, 3 or 4 atom identifiers
C22_LinkArity ==
  (/\ op = "Key" /\ last.call = "Check" /\ last.res = Ok
   /\ last.key \in {NameBonds, NameAngles, NameDihedrals})
    => \A id \in DOMAIN heap[keys[last.key]].tab.m :
         Len(heap[keys[last.key]].tab.m[id].links) = LinkArity(last.key)

\* Check has accepted an Angles table, assigned with Set, whose only record
\* holds the two atom identifiers of a bond
C22_Witness ==
  /\ Checked(NameAngles) /\ last.res = Ok
  /\ heap[keys[NameAngles]].tab = Rows(1, Link(1, << 1, 2 >>))
  /\ Counter(NameAnglesNbr) = 1

\* the same property for the tables filled by Decode alone
C22_DecodedArity ==
  (op = "Decode" /\ pc # "start") =>
    \A n \in (DOMAIN keys) \cap {NameBonds, NameAngles, NameDihedrals} :
      \A id \in DOMAIN heap[keys[n]].tab.m :
        Len(heap[keys[n]].tab.m[id].links) = LinkArity(n)

\* C24: whenever Check succeeds on a table whose row-count Counter holds N,
\* the ids of the table are exactly 1, ..., N
C24_IdsContiguous ==
  (/\ op = "Key" /\ last.call = "Check" /\ last.res = Ok
   /\ last.key \in TableNames)
    => DOMAIN heap[keys[last.key]].tab.m = 1..Counter(RowCounter(last.key))

\* Check has accepted Masses with 'atom types' equal to 2 and the ids 1, 2
C24_Witness ==
  /\ Checked(NameMasses) /\ last.res = Ok
  /\ Counter(NameAtomTypes) = 2
  /\ DOMAIN heap[keys[NameMasses]].tab.m = {1, 2}

\* Check has rejected, for its id, a table of one record whose id is not 1
\* while its Counter is 1
C24_GapRejected ==
  /\ last.call = "Check" /\ last.key \in TableNames /\ last.res = ErrRange
  /\ Counter(RowCounter(last.key)) = 1
  /\ DOMAIN heap[keys[last.key]].tab.m = {MaxCount + 1}

\* the Keys of the kinds K keep their value through a Set that is rejected
SetRejectedKeeps(K) ==
  (/\ op = "Key" /\ last'.call = "Set" /\ last'.res = ErrType
   /\ heap[keys[last'.key]].kind \in K)
    => Get(heap'[keys[last'.key]]) = Get(heap[keys[last'.key]])

\* C27: a Set that is rejected for the type of its value leaves the value
\* the Key held: Get returns after it what it returned before, for every
\* variant
C27_FailedSetKeeps ==
  [][SetRejectedKeeps({KindTitle, KindHeader, KindBox, KindMasses, KindCoeffs,
                       KindAtoms, KindLinks})]_vars

\* Set on Masses has been rejected for the type of its value and Masses
\* holds the nil map, while 'atom types' still holds the 2 that SetKeysVal
\* or Set gave it
C27_Witness ==
  /\ op = "Key" /\ last = Call("Set", NameMasses, ErrType)
  /\ Get(heap[keys[NameMasses]]) = MapVal(TypeMasses, NilMap)
  /\ Counter(NameAtomTypes) = 2

\* the same property for Title and Box
C27_TitleBoxKeep == [][SetRejectedKeeps({KindTitle, KindBox})]_vars

\* the row-count Counter of the table named n, as the Registry holds it
CounterOf(n) == heap[keys[RowCounter(n)]]

\* the section of the table named n has been read although its row-count
\* Counter was never decoded: the table has left the body pool and the
\* Counter is still in the header pool
Dropped(n) ==
  /\ op = "Decode" /\ pc \in {"dec_loop", "dec_copy", "dec_done"}
  /\ n \in (DOMAIN keys) \cap TableNames
  /\ n \notin kBody /\ RowCounter(n) \in kHead

\* a turn of the loop in which the table named n matches while its Counter
\* is still in the header pool: only the separator line is taken, without
\* error, and the table leaves the pool
SeparatorOnly(n) ==
  (Started(n) /\ RowCounter(n) \in kHead)
    => /\ RowCount(n) = 0
       /\ pos' = AfterRows(0)
       /\ pc' = "dec_loop" /\ err' = NoErr
       /\ kBody' = kBody \ {n}

\* a turn of the loop in the body phase on a line that no Key of the body
\* pool matches: the line is skipped and nothing changes
Skipped ==
  (InLoop /\ ~inHeader /\ \A m \in kBody : ~Matches(m, doc[pos + 1]))
    => /\ pos' = pos + 1 /\ pc' = pc /\ err' = err
       /\ heap' = heap /\ kBody' = kBody /\ kHead' = kHead

\* C28: a table whose section comes while its row-count Counter has not
\* been decoded takes the separator line only; its rows are then skipped
\* as unmatched lines; the table stays empty and the Counter 0, whatever
\* comes later, and both pass Check: no error names them
C28_RowsDropped ==
  /\ [](\A n \in TableNames : Dropped(n) =>
          /\ ~inHeader
          /\ heap[keys[n]].tab = MakeMap
          /\ CounterOf(n).v = 0
          /\ Check(heap, keys[n]) = {Ok}
          /\ Check(heap, keys[RowCounter(n)]) = {Ok}
          /\ err.key \notin {n, RowCounter(n)})
  /\ [][Skipped /\ \A n \in TableNames \cap DOMAIN keys : SeparatorOnly(n)]_vars

\* Decode has ended without error on a text with a Masses section of two
\* rows and no 'atom types' line: every line is read, the table is empty,
\* the Counter 0, and the field of the destination an empty map
C28_Witness ==
  /\ op = "Decode" /\ pc = "dec_done" /\ err = NoErr
  /\ text = DocNoCounter /\ pos = 6 /\ doc[5] = "1 1.0" /\ doc[6] = "2 0.5"
  /\ Dropped(NameMasses)
  /\ dst[nFields[NameMasses]] = MapVal(TypeMasses, MakeMap)

\* the same with an Atoms section followed by the line "2 atoms"
C28_AtomsDropped ==
  /\ op = "Decode" /\ pc = "dec_done" /\ err = NoErr
  /\ text = DocAtomsNoCounter /\ pos = 6
  /\ Dropped(NameAtoms) /\ CounterOf(NameAtoms).v = 0
  /\ heap[keys[NameAtoms]].tab = MakeMap

\* the same with the line "1 atom types" after the Masses section: the
\* line is skipped, for the header phase is over
C28_CounterLate ==
  /\ op = "Decode" /\ pc = "dec_done" /\ err = NoErr
  /\ text = DocCounterLate /\ pos = 5 /\ doc[5] = "1 atom types"
  /\ Dropped(NameMasses) /\ CounterOf(NameMasses).v = 0
  /\ dst[nFields[NameMasses]] = MapVal(TypeMasses, MakeMap)

\* the Registry as createNames has built it for the struct type of Decode
Fresh == createNames(fields)

\* the Key named n is as it was built: no Keyword, Decode or Set has acted
\* on it
Untouched(n) == heap'[keys'[n]] = Fresh.heap[Fresh.keys[n]]

\* the start of Decode on a text of one line at least: the first line is
\* taken, and the loop will start at the second; no Key has left its pool
\* and no Key but the Title has been acted on; the Title, if there is one,
\* holds the line
TitleTaken ==
  (op = "Decode" /\ pc = "start" /\ Len(ScanLines(text)) > 0)
    => /\ pos' = 1 /\ pc' = "dec_loop" /\ err' = NoErr /\ inHeader'
       /\ keys' = Fresh.keys
       /\ kHead' \cup kBody' = DOMAIN keys'
       /\ \A n \in (DOMAIN keys') \ {NameTitle} : Untouched(n)
       /\ NameTitle \in DOMAIN keys' =>
            heap'[keys'[NameTitle]] =
              [Fresh.heap[Fresh.keys[NameTitle]] EXCEPT !.s = ScanLines(text)[1]]

\* C30: the first line of the stream is the title: it is never tested
\* against the header or table Keys, whatever it reads; the Title Key, if
\* there is one, holds it from then on, and gives it to the destination when
\* Decode succeeds; the loop starts at the second line
C30_TitleLine ==
  /\ []((op = "Decode" /\ pc # "start" /\ Len(doc) > 0) =>
          /\ pos >= 1
          /\ NameTitle \in DOMAIN keys =>
               /\ Get(heap[keys[NameTitle]]) = StrVal(doc[1])
               /\ (pc = "dec_done" /\ err = NoErr) =>
                    dst[nFields[NameTitle]] = StrVal(doc[1]))
  /\ [][TitleTaken]_vars

\* Decode has ended without error on a text whose first line reads
\* "Masses": the Title holds it, and the table was read from the section of
\* the fourth line
C30_Witness ==
  /\ op = "Decode" /\ pc = "dec_done" /\ err = NoErr
  /\ text = DocTitleMasses /\ doc[1] = "Masses"
  /\ dst[nFields[NameTitle]] = StrVal("Masses")
  /\ dst[nFields[NameMasses]] = MapVal(TypeMasses, MapOf(1 :> 10))

\* the first line reads "1 atom types" and the Title is requested: the
\* Counter stays 0 and the table empty
C30_CounterAsTitle ==
  /\ op = "Decode" /\ pc = "dec_done" /\ err = NoErr
  /\ text = DocTitleCounter
  /\ dst[nFields[NameTitle]] = StrVal("1 atom types")
  /\ heap[keys[NameAtomTypes]].v = 0
  /\ dst[nFields[NameMasses]] = MapVal(TypeMasses, MakeMap)

\* the first line reads "1 bonds" and the Title is not requested: the line
\* is discarded, the Counter stays 0
C30_Discarded ==
  /\ op = "Decode" /\ pc = "dec_done" /\ err = NoErr
  /\ text = DocFirstBonds /\ NameTitle \notin DOMAIN keys
  /\ pos = 1 /\ heap[keys[NameBondsNbr]].v = 0
  /\ NameBondsNbr \in kHead

(***************************************************************************)
(* Properties of MakeKeys.                                                 *)
(***************************************************************************)
\* the type Counter of a table
TypeCounter(n) ==
  CASE n \in {NameMasses, NamePairCoeffs, NameAtoms} -> NameAtomTypes
    [] n \in {NameBondCoeffs, NameBonds} -> NameBondTypes
    [] n \in {NameAngleCoeffs, NameAngles} -> NameAngleTypes
    [] n \in {NameDihedralCoeffs, NameDihedrals} -> NameDihedralTypes

\* the reference r is the Key the Registry holds under the Name d
PointsTo(r, d) == r # 0 /\ d \in DOMAIN keys /\ keys[d] = r /\ heap[r].name = d

\* every reference of the table named n is set, to the Counter it is for
WiredAsExpected(n) ==
  CASE heap[keys[n]].kind \in {KindMasses, KindCoeffs} ->
         PointsTo(heap[keys[n]].types, TypeCounter(n))
    [] heap[keys[n]].kind = KindAtoms ->
         /\ PointsTo(heap[keys[n]].atomsNbr, NameAtomsNbr)
         /\ PointsTo(heap[keys[n]].types, NameAtomTypes)
    [] heap[keys[n]].kind = KindLinks ->
         /\ PointsTo(heap[keys[n]].atomsNbr, NameAtomsNbr)
         /\ PointsTo(heap[keys[n]].nbr, RowCounter(n))
         /\ PointsTo(heap[keys[n]].types, TypeCounter(n))

\* C23: after MakeKeys every table of the Registry has each of its
\* references set and pointing to the Counter of the expected Name, so
\* that its Check, SetKeysVal and Decode do not fail for a missing
\* dependency
C23_FullyWired ==
  (op = "MakeKeys" /\ pc \in {"made", "set"}) =>
    \A n \in (DOMAIN keys) \cap TableNames :
      /\ WiredAsExpected(n)
      /\ ErrNilKey \notin Check(heap, keys[n])
      /\ SetKeysVal(heap, keys[n]).err # ErrNilKey
      /\ Decode(heap, keys[n], n, << n >>, 1).err # ErrNilKey

\* MakeKeys has been called with Dihedrals alone: the Registry holds it and
\* its three Counters
C23_Witness ==
  /\ op = "MakeKeys" /\ pc = "made" /\ last.call = "MakeKeys"
  /\ Requested = << NameDihedrals >>
  /\ DOMAIN keys = {NameDihedrals, NameAtomsNbr, NameDihedralsNbr, NameDihedralTypes}
  /\ heap[heap[keys[NameDihedrals]].nbr].name = NameDihedralsNbr

\* the Names a Key depends on
Dependencies(n) ==
  CASE n \in {NameMasses, NamePairCoeffs} -> {NameAtomTypes}
    [] n = NameBondCoeffs -> {NameBondTypes}
    [] n = NameAngleCoeffs -> {NameAngleTypes}
    [] n = NameDihedralCoeffs -> {NameDihedralTypes}
    [] n = NameAtoms -> {NameAtomTypes, NameAtomsNbr}
    [] n = NameBonds -> {NameAtomsNbr, NameBondsNbr, NameBondTypes}
    [] n = NameAngles -> {NameAtomsNbr, NameAnglesNbr, NameAngleTypes}
    [] n = NameDihedrals -> {NameAtomsNbr, NameDihedralsNbr, NameDihedralTypes}
    [] OTHER -> {}

\* the Keys a Key refers to
Refs(o) == {o.types, o.nbr, o.atomsNbr} \ {0}

\* C6: MakeKeys creates at most one Key per Name, the Registry holds every
\* requested Name, and every reference of a Key to a dependency is the Key
\* the Registry holds under the Name of the dependency
C6_Sharing ==
  (op = "MakeKeys" /\ pc \in {"made", "set"}) =>
    /\ \A i, j \in DOMAIN heap : heap[i].name = heap[j].name => i = j
    /\ \A j \in DOMAIN fields : IsName(fields[j].tag) => fields[j].tag \in DOMAIN keys
    /\ \A n \in DOMAIN keys :
         /\ heap[keys[n]].name = n
         /\ {heap[r].name : r \in Refs(heap[keys[n]])} = Dependencies(n)
         /\ \A r \in Refs(heap[keys[n]]) :
              heap[r].name \in DOMAIN keys /\ keys[heap[r].name] = r

\* Masses and Atoms were requested, and both refer to one 'atom types' Key
C6_Witness ==
  /\ op = "MakeKeys" /\ pc = "made"
  /\ NameMasses \in DOMAIN keys /\ NameAtoms \in DOMAIN keys
  /\ heap[keys[NameMasses]].types = keys[NameAtomTypes]
  /\ heap[keys[NameAtoms]].types = keys[NameAtomTypes]

\* the requested Names that ListNames holds, and the others
Known == {fields[j].tag : j \in {i \in DOMAIN fields : IsName(fields[i].tag)}}
Unknown == {fields[j].tag : j \in {i \in DOMAIN fields : ~IsName(fields[i].tag)}}

\* the Registry holds a Key of the right variant for every requested Name
\* of ListNames and for every dependency of one, and no other Key
Instantiated ==
  /\ DOMAIN keys = Known \cup UNION {Dependencies(n) : n \in Known}
  /\ \A n \in DOMAIN keys :
       /\ heap[keys[n]].name = n
       /\ heap[keys[n]].kind = Construct(n, AtomStyleFull).kind

\* C11, as stated: a build from a list that holds a Name outside ListNames
\* does not abort; the Name is dropped and the Keys of the other requested
\* Names and of their dependencies are instantiated
C11_UnknownDropped ==
  (op = "MakeKeys" /\ pc # "start") => (pc # "panic" /\ Instantiated)

\* C11, amended: createNames drops the Names outside ListNames before it
\* calls MakeKeys, so a build through createNames never aborts and
\* instantiates the Keys of the other requested Names and of their
\* dependencies; MakeKeys called with such a Name panics, and with none it
\* instantiates them too
C11_CreateNamesDrops ==
  (op = "MakeKeys" /\ pc # "start") =>
    /\ pc = "panic" => (last.call = "MakeKeys" /\ Unknown # {})
    /\ (last.call = "MakeKeys" /\ Unknown # {}) => pc = "panic"
    /\ pc # "panic" => Instantiated

\* createNames has built a Registry from the tags "Velocities" and
\* "Masses": it holds Masses and 'atom types' and nothing else
C11_Witness ==
  /\ op = "MakeKeys" /\ pc = "made" /\ last.call = "createNames"
  /\ Requested = << NameUnknown, NameMasses >>
  /\ DOMAIN keys = {NameMasses, NameAtomTypes}
  /\ heap[keys[NameMasses]].types = keys[NameAtomTypes]

(***************************************************************************)
(* Properties of Encode.                                                   *)
(***************************************************************************)
\* Encode has returned
EncodeDone == op = "Encode" /\ pc = "enc_done"

\* the tables the struct supplies without their row-count Counter
Uncounted ==
  {n \in DOMAIN nFields \cap TableNames : RowCounter(n) \notin DOMAIN nFields}

\* the number of records the struct supplies for the table n
Supplied(n) == MapLen(val[nFields[n]].tab)

\* the lines of the text that are the Counter named c
CounterLines(t, c) ==
  {j \in DOMAIN ScanLines(t) : HasSuffix(ScanLines(t)[j], " " \o c)}

\* C4: when the struct supplies a table with K records and not its
\* row-count Counter, the Counter line Encode writes carries K: a
\* successful Encode writes the line "K <counter>", no other line of that
\* Counter is written, and the table is not rejected for its count unless
\* another supplied table with another count shares the Counter
C4_CountPropagation ==
  EncodeDone =>
    \A n \in Uncounted :
      /\ \A j \in CounterLines(out, RowCounter(n)) :
           ScanLines(out)[j] = FmtInt(Supplied(n)) \o " " \o RowCounter(n)
      /\ err = NoErr => CounterLines(out, RowCounter(n)) # {}
      /\ (\A t \in Uncounted : RowCounter(t) = RowCounter(n) => Supplied(t) = Supplied(n))
           => err # Err("Check", n, ErrCount)

\* Encode has succeeded on a struct that supplies Masses with 2 records and
\* no 'atom types', and has written "2 atom types"
C4_Witness ==
  /\ EncodeDone /\ err = NoErr
  /\ NameMasses \in Uncounted
  /\ Supplied(NameMasses) = 2
  /\ \E j \in DOMAIN ScanLines(out) : ScanLines(out)[j] = "2 atom types"

\* the requested Names in the order of their fields in the struct
FieldOrder ==
  [k \in 1..Cardinality(DOMAIN nFields) |->
     CHOOSE n \in DOMAIN nFields :
       Cardinality({m \in DOMAIN nFields : nFields[m] < nFields[n]}) = k - 1]

\* the loop of Encode over the requested Names taken in the order given:
\* the error it ends with and the Keys it leaves
RECURSIVE AssignInOrder(_, _)
AssignNext(h, order, r, p) ==
  IF r.err # Ok THEN [err |-> r.err, h |-> h]
  ELSE IF p.err \notin {Ok, ErrUnsupported} THEN [err |-> p.err, h |-> h]
  ELSE AssignInOrder(p.h, Tail(order))

AssignSet(h, order, k, r) ==
  AssignNext(h, order, r, SetKeysVal([h EXCEPT ![k] = r.o], k))

AssignInOrder(h, order) ==
  IF Len(order) = 0 THEN [err |-> Ok, h |-> h]
  ELSE AssignSet(h, order, keys[Head(order)],
         Set(h[keys[Head(order)]], val[nFields[Head(order)]]))

\* Encode ends as it does when the Names are taken in the order a: it
\* succeeds or fails alike, and writes the same text
SameOutcome(a) ==
  /\ err = NoErr <=>
       (a.err = Ok /\ Failing(a.h, keys) = {} /\ EncodeAll(a.h, keys).err = Ok)
  /\ err = NoErr => out = EncodeAll(a.h, keys).w

\* C25: whether Encode succeeds and what it writes do not depend on the
\* order in which the requested Names are assigned and propagated: every
\* Encode of a struct value ends as the Encode that takes the Names in the
\* order of the fields
C25_Deterministic ==
  EncodeDone => SameOutcome(AssignInOrder(createNames(fields).heap, FieldOrder))

\* Encode of a struct that supplies 'atom types' = 2 and Masses with one
\* record has succeeded and written "1 atom types": Masses was propagated
\* after the Counter was assigned
C25_Witness ==
  /\ EncodeDone /\ err = NoErr
  /\ NameAtomTypes \in DOMAIN nFields /\ NameMasses \in DOMAIN nFields
  /\ val[nFields[NameAtomTypes]] = IntVal(2)
  /\ Supplied(NameMasses) = 1
  /\ \E j \in DOMAIN ScanLines(out) : ScanLines(out)[j] = "1 atom types"

\* Encode of the same struct has failed in Check on Masses: the Counter was
\* assigned after Masses was propagated
C25_OtherOrder ==
  /\ EncodeDone /\ err = Err("Check", NameMasses, ErrCount) /\ out = ""
  /\ NameAtomTypes \in DOMAIN nFields /\ NameMasses \in DOMAIN nFields
  /\ val[nFields[NameAtomTypes]] = IntVal(2)
  /\ Supplied(NameMasses) = 1
  /\ val[nFields[NameAtomsNbr]] = IntVal(0)
  /\ MapLen(val[nFields[NameAtoms]].tab) = 0

\* the same property for the structs that supply no table together with
\* its row-count Counter
C25_UncountedDeterministic ==
  (EncodeDone /\ Uncounted = DOMAIN nFields \cap TableNames)
    => SameOutcome(AssignInOrder(createNames(fields).heap, FieldOrder))

\* the place of a line in the canonical order: 1..4 the row-count Counters,
\* 5..8 the type Counters, 9..11 the BoxDimensions, 12..20 the tables' own
\* lines; 0 for any other line
CanonicalOrder ==
  << "atoms", "bonds", "angles", "dihedrals",
     "atom types", "bond types", "angle types", "dihedral types",
     "xlo xhi", "ylo yhi", "zlo zhi",
     "Masses", "Pair Coeffs", "Bond Coeffs", "Angle Coeffs", "Dihedral Coeffs",
     "Atoms", "Bonds", "Angles", "Dihedrals" >>

IsSection(l, k) ==
  IF k <= 11 THEN HasSuffix(l, " " \o CanonicalOrder[k]) ELSE l = CanonicalOrder[k]

Rank(l) ==
  IF \E k \in DOMAIN CanonicalOrder : IsSection(l, k)
  THEN CHOOSE k \in DOMAIN CanonicalOrder : IsSection(l, k)
  ELSE 0

\* the header group of a rank
Group(k) == IF k <= 4 THEN 1 ELSE IF k <= 8 THEN 2 ELSE IF k <= 11 THEN 3 ELSE 4

\* the lines are in the canonical order
InOrder(ls) ==
  \A i, j \in 2..Len(ls) :
    (i < j /\ Rank(ls[i]) > 0 /\ Rank(ls[j]) > 0) => Rank(ls[i]) < Rank(ls[j])

\* the title is followed by a blank line; a header line is followed by a
\* line of its group or by a blank line; a table's own line is followed by
\* a blank line, and the table ends with a blank line
Spaced(ls) ==
  /\ Len(ls) >= 2 /\ ls[2] = ""
  /\ \A i \in 3..Len(ls) :
       /\ (Rank(ls[i]) > 0 /\ Rank(ls[i]) <= 11) =>
            /\ i < Len(ls)
            /\ ls[i + 1] = "" \/ Group(Rank(ls[i + 1])) = Group(Rank(ls[i]))
       /\ Rank(ls[i]) > 11 =>
            /\ ls[i - 1] = ""
            /\ i < Len(ls) /\ ls[i + 1] = ""
            /\ ls[Len(ls)] = ""

\* C7: the sections Encode writes are in the canonical order, whatever the
\* order of the fields of the struct; and in the text of a successful
\* Encode a blank line follows every header group and every table
C7_CanonicalOrder ==
  EncodeDone =>
    /\ InOrder(ScanLines(out))
    /\ (err = NoErr => Spaced(ScanLines(out)))

\* Encode has succeeded on a struct whose fields are Atoms, Masses, the box
\* and the title, in this order, and has written Masses before Atoms
C7_Witness ==
  /\ EncodeDone /\ err = NoErr
  /\ fields[1].tag = "Atoms, atomic"
  /\ \E i, j \in DOMAIN ScanLines(out) :
       i < j /\ ScanLines(out)[i] = "Masses" /\ ScanLines(out)[j] = "Atoms"

\* C29: whenever Encode returns an error, nothing has been written
C29_AllOrNothing ==
  (EncodeDone /\ err # NoErr) => out = ""

\* Encode has returned the error of Masses.Encode on the nil map of a struct
\* of Masses and Pair Coeffs, after Check has passed (the nil map has length
\* 0, and so has the Counter), and the title line, the blank line after it,
\* the line of the Counter and the blank line after it have been written
C29_Witness ==
  /\ EncodeDone
  /\ err = Err("Encode", NameMasses, ErrNilMap)
  /\ fields = << F(NameMasses, TypeMasses), F(NamePairCoeffs, TypeCoeffs) >>
  /\ val[nFields[NameMasses]] = MapVal(TypeMasses, NilMap)
  /\ Failing(heap, keys) = {}
  /\ out = "\n\n0 atom types\n\n"

\* the errors of Set, of SetKeysVal and of Check are returned with nothing
\* written
C29_BeforeWrite ==
  (EncodeDone /\ err.stage \in {"Set", "SetKeysVal", "Check"}) => out = ""

\* C8: Encode runs Check on every Key of the Registry before it writes the
\* first byte: if a Key fails, nothing is written and Encode returns the
\* error of a failing Key (or the error that ended it before Check)
C8_ValidateBeforeWrite ==
  (op = "Encode" /\ pc \in {"enc_write", "enc_done"}) =>
    /\ out # "" => Failing(heap, keys) = {}
    /\ pc = "enc_write" => Failing(heap, keys) = {}
    /\ (pc = "enc_done" /\ Failing(heap, keys) # {}) =>
         /\ out = ""
         /\ \/ err.stage \in {"Set", "SetKeysVal"}
            \/ err.stage = "Check" /\ << err.key, err.why >> \in Failing(heap, keys)

\* Encode has returned the error of Check on a Key (here a dependency Key
\* or a requested one) and has written nothing
C8_Witness ==
  /\ EncodeDone
  /\ err.stage = "Check"
  /\ out = ""

\* C9: Decode returns without error only if every Key of the Registry
\* passes Check at the end of the stream; and when a Key fails there,
\* Decode returns an error that carries the Name of a failing Key
C9_DecodeValidates ==
  (op = "Decode" /\ pc \in {"dec_copy", "dec_done"}) =>
    /\ err = NoErr => Failing(heap, keys) = {}
    /\ pc = "dec_copy" => Failing(heap, keys) = {}
    /\ err.stage = "Check" => << err.key, err.why >> \in Failing(heap, keys)
    /\ (pos >= Len(doc) /\ Failing(heap, keys) # {} /\ err.stage \notin {"Set", "Decode", "panic"})
         => err.stage = "Check"

\* Decode has reached the end of a stream that holds fewer Masses than
\* 'atom types' says, and has returned the error of Check on Masses
C9_Witness ==
  /\ op = "Decode" /\ pc = "dec_done"
  /\ text = DocMassesShort
  /\ err = Err("Check", NameMasses, ErrCount)

=============================================================================
